---- MODULE Spec2Model ----
(***************************************************************************)
(* A model of the DataPulse ETL pipeline (src/backend/etl):                *)
(*   0_ingest.py          archive extraction and manifest                  *)
(*   1_normalize.py       per-file normalisation, combine                  *)
(*   2_partition_write.py hive-partitioned write                           *)
(*   3_aggregate.py       per-partition resampling                         *)
(*   4_metadata.py        catalog build                                    *)
(*                                                                         *)
(* File names are sequences of one-character strings.  Timestamps are      *)
(* minutes since 2023-01-01 00:00 UTC (a Sunday).  NaN / NaT, the values   *)
(* pandas gives a field it cannot parse, are the number NaN below.         *)
(***************************************************************************)
EXTENDS Integers, Sequences, FiniteSets, Bags, TLC

VARIABLES
    fn_name,      \* extract_tags_from_filename: the argument
    fn_tags,      \* extract_tags_from_filename: the value returned
    fn_done,      \* whether the call has returned
    nf_rows,      \* normalize_txt_or_csv: the rows of the file, in file order
    nf_out,       \* normalize_txt_or_csv: the rows of the dataframe returned
    nf_done,      \* whether the call has returned
    raw_root,     \* the files under the raw-data root, in listing order
    disk,         \* the files under etl_tmp (extracted archives)
    items,        \* 0_ingest main: the list discover_files returned
    item_i,       \* 0_ingest main: index of the next item of the loop
    manifest_files, \* 0_ingest main: the entries collected so far (a bag)
    all_tags,     \* 0_ingest main: the tags collected so far (a bag)
    manifest,     \* etl_tmp/manifest.json as last written (NoManifest before)
    prev_manifest,  \* manifest.json as the previous ingestion run left it
    file_rows,    \* the rows of each data file, by file name
    split_at,     \* rows of a dataframe that dask puts in its first partition
    combined,     \* etl_tmp/normalized/combined, the dataset 1_normalize saves
    store,        \* data/parquet: the rows of each partition file, by key
    write_ok,     \* what write_partitioned_data returned last
    stats,        \* process_all_files: its stats dict after the loop
    agg,          \* data/parquet_agg: for each interval, its partition files
    agg_i,        \* process_all_aggregations: index of the next interval
    agg_log,      \* process_all_aggregations: the intervals attempted, with outcome
    io_fails,     \* for each interval, where an I/O error hits its iteration
    agg_dirs,     \* ../data/parquet_agg: whether it exists, and its interval=<name> directories
    catalog,      \* data/catalog.sqlite: the rows of its three tables
    prev_catalog, \* the catalog as the previous build left it
    removed,      \* the files taken out of the trees since the catalog was built
    dd_bound,     \* 5_validate.py: whether the name dd resolves to dask.dataframe
    report,       \* 5_validate.py: the ValidationReport (checks, errors, warnings)
    saved,        \* 5_validate.py: the summary of the report that save wrote
    runner,       \* run_all.py: the ETLRunner's loop position, results and scripts started
    env,          \* run_all.py: what the runner meets (scripts present, exit codes, raw root)
    wr,           \* 2_partition_write.py: the to_parquet call in progress (phase, partitions, files to write)
    partial,      \* the files at a final path of the partition tree that are open for writing
    lc_path,      \* load_csv_from_manifest_entry: file_meta["path"], split at "!"
    lc_out,       \* load_csv_from_manifest_entry: what the call returned or raised
    lc_done,      \* whether the call has returned
    runs,         \* number of pipeline runs started
    stage         \* the script of the run that is executing, or "end"

tagVars    == <<fn_name, fn_tags, fn_done>>
normVars   == <<nf_rows, nf_out, nf_done>>
ingestVars == <<raw_root, disk, items, item_i, manifest_files, all_tags,
                manifest, prev_manifest>>
dataVars   == <<file_rows, split_at, combined, store, write_ok, stats>>
aggVars    == <<agg, agg_i, agg_log, io_fails, agg_dirs>>
catVars    == <<catalog, prev_catalog, removed, dd_bound, report, saved>>
locVars    == <<lc_path, lc_out, lc_done>>
runVars    == <<runs, stage>>
runnerVars == <<runner, env>>
writeVars  == <<wr, partial>>
vars       == <<tagVars, normVars, ingestVars, dataVars, aggVars, catVars, locVars,
                runVars, runnerVars, writeVars>>

----------------------------------------------------------------------------
(* Bounds *)

MaxNameLen == 5     \* longest file name given to extract_tags_from_filename
MaxRows    == 2     \* most rows in one source file
MaxRuns    == 2     \* pipeline runs over the same raw-data root
MaxSplit   == 2     \* largest first-partition size dask may choose
MaxParts   == 3     \* most parts a manifest path splits into at "!"
MaxCopies  == 2     \* most times a manifest lists one file
MaxChecks  == 3     \* most add_check calls, and most add_warning calls, on a report

----------------------------------------------------------------------------
(* Generic helpers on sequences *)

RECURSIVE SeqsUpTo(_, _)
SeqsUpTo(S, n) ==
    IF n = 0 THEN { <<>> }
    ELSE LET shorter == SeqsUpTo(S, n - 1)
         IN  shorter \cup { Append(s, x) : s \in { t \in shorter : Len(t) = n - 1 }, x \in S }

Range(s) == { s[i] : i \in DOMAIN s }

\* str.find / str.rfind, 1-based; 0 when the character does not occur.
FirstIndexOf(s, c) ==
    IF \E i \in DOMAIN s : s[i] = c
    THEN CHOOSE i \in DOMAIN s : s[i] = c /\ \A j \in 1..(i - 1) : s[j] # c
    ELSE 0

LastIndexOf(s, c) ==
    IF \E i \in DOMAIN s : s[i] = c
    THEN CHOOSE i \in DOMAIN s : s[i] = c /\ \A j \in (i + 1)..Len(s) : s[j] # c
    ELSE 0

EndsWith(s, suffix) ==
    /\ Len(s) >= Len(suffix)
    /\ SubSeq(s, Len(s) - Len(suffix) + 1, Len(s)) = suffix

\* Every order a sort of s by the keys k (k[i] is the key of s[i]) may leave
\* s in when the sort is not stable: ascending in the key, rows of equal
\* key in any order.  I is the set of indices still to be placed.
RECURSIVE SortedFrom(_, _, _)
SortedFrom(s, k, I) ==
    IF I = {} THEN { <<>> }
    ELSE UNION { { << s[i] >> \o rest : rest \in SortedFrom(s, k, I \ { i }) } :
                 i \in { j \in I : \A m \in I : k[j] <= k[m] } }

SortedOrders(s, k) == SortedFrom(s, k, DOMAIN s)

\* The one order a stable sort leaves s in: equal keys keep their order.
RECURSIVE StableFrom(_, _, _)
StableFrom(s, k, I) ==
    IF I = {} THEN <<>>
    ELSE LET i == CHOOSE j \in I : \A m \in I : k[j] < k[m] \/ (k[j] = k[m] /\ j <= m)
         IN  << s[i] >> \o StableFrom(s, k, I \ { i })

StableOrder(s, k) == StableFrom(s, k, DOMAIN s)

----------------------------------------------------------------------------
(* 0_ingest.py: extract_tags_from_filename *)

NameAlphabet == { "A", "_", "." }

\* filename.rsplit('.', 1)[0]
RSplitDotHead(filename) ==
    LET k == LastIndexOf(filename, ".")
    IN  IF k = 0 THEN filename ELSE SubSeq(filename, 1, k - 1)

\* name.split('_')[0]
SplitUnderscoreHead(name) ==
    LET k == FirstIndexOf(name, "_")
    IN  IF k = 0 THEN name ELSE SubSeq(name, 1, k - 1)

\* name.split('.')[0]: the base name cut at its FIRST dot.
extract_tags_first_dot(filename) ==
    LET k    == FirstIndexOf(filename, ".")
        name == IF k = 0 THEN filename ELSE SubSeq(filename, 1, k - 1)
        tag  == SplitUnderscoreHead(name)
    IN  IF tag # <<>> THEN << tag >> ELSE <<>>

extract_tags_from_filename(filename) ==
    LET name == RSplitDotHead(filename)
        tag  == SplitUnderscoreHead(name)
    IN  IF tag # <<>> THEN << tag >> ELSE <<>>

ExtractTags ==
    /\ ~fn_done
    /\ fn_tags' = extract_tags_from_filename(fn_name)
    /\ fn_done' = TRUE
    /\ UNCHANGED <<fn_name, normVars, ingestVars, dataVars, aggVars, catVars, runVars, locVars, runnerVars, writeVars>>

----------------------------------------------------------------------------
(* 1_normalize.py: normalize_txt_or_csv on one file *)

\* errors='coerce': the value of a field that does not parse (NaN, NaT).
NaN == 0 - 99

\* The parsed fields of the rows a source file may hold.
RawTimes   == { 0, 1, NaN }
RawOpens   == { 0, 1, 2 }
RawHighs   == { 1, 2 }
RawLows    == { 1, 2 }
RawCloses  == { 0, 1, 2, NaN }
RawVolumes == { -1, 1 }

RawRows ==
    [ time : RawTimes, open : RawOpens, high : RawHighs, low : RawLows,
      close : RawCloses, volume : RawVolumes ]

\* A comparison with NaN is False in pandas.
Ge(a, b) == a # NaN /\ b # NaN /\ a >= b
Gt(a, b) == a # NaN /\ b # NaN /\ a > b

\* df.dropna(subset=['time', 'close'])
NotNaTimeClose(r) == r.time # NaN /\ r.close # NaN
\* df[df['volume'] >= 0]
VolumeOk(r) == Ge(r.volume, 0)
\* df[df['open'] > 0]
OpenOk(r) == Gt(r.open, 0)
\* df[df['high'] >= df['low']]
HighLowOk(r) == Ge(r.high, r.low)

\* The filters of normalize_txt_or_csv, in the order the code applies them.
FilterRows(rows) ==
    SelectSeq(SelectSeq(SelectSeq(SelectSeq(rows,
        NotNaTimeClose), VolumeOk), OpenOk), HighLowOk)

TimeKeys(rows) == [i \in DOMAIN rows |-> rows[i].time]

\* df.drop_duplicates(subset=['time', 'symbol'], keep='last') on one file
\* (one symbol): a row stays iff no later row has its time.
DropDuplicatesKeepLast(rows) ==
    LET keep == { i \in DOMAIN rows : \A j \in (i + 1)..Len(rows) : rows[j].time # rows[i].time }
        RECURSIVE Pick(_)
        Pick(i) == IF i > Len(rows) THEN <<>>
                   ELSE IF i \in keep THEN << rows[i] >> \o Pick(i + 1)
                   ELSE Pick(i + 1)
    IN  Pick(1)

\* df.sort_values('time'): pandas' default kind is quicksort, which is not
\* stable, so rows of equal time may come out in any order.
SortValuesTime(rows) == SortedOrders(rows, TimeKeys(rows))

\* The dataframes normalize_txt_or_csv may return for a file.
normalize_txt_or_csv(rows) ==
    { DropDuplicatesKeepLast(sorted) : sorted \in SortValuesTime(FilterRows(rows)) }

NormalizeFile ==
    /\ ~nf_done
    /\ nf_out' \in normalize_txt_or_csv(nf_rows)
    /\ nf_done' = TRUE
    /\ UNCHANGED <<nf_rows, tagVars, ingestVars, dataVars, aggVars, catVars, runVars, locVars, runnerVars, writeVars>>


----------------------------------------------------------------------------
(* 0_ingest.py: discovery, extraction, manifest *)

\* A file name is the sequence of its tokens: "." and "_" stand for
\* themselves, every other token is a maximal run of other characters.
\* A path is a sequence of names.

IsPrefix(p, q) == Len(p) <= Len(q) /\ SubSeq(q, 1, Len(p)) = p

\* str.lower(), on the tokens the model uses.
LowerToken(t) == IF t = "TXT" THEN "txt" ELSE IF t = "ZIP" THEN "zip" ELSE t
Lower(name) == [i \in DOMAIN name |-> LowerToken(name[i])]

\* Path.suffix: from the last dot, unless that dot starts or ends the name.
PathSuffix(name) ==
    LET k == LastIndexOf(name, ".")
    IN  IF 1 < k /\ k < Len(name) THEN SubSeq(name, k, Len(name)) ELSE <<>>

\* Path.stem
PathStem(name) == SubSeq(name, 1, Len(name) - Len(PathSuffix(name)))

\* '.' + path.split('.')[-1]
LastDotPart(name) ==
    << "." >> \o SubSeq(name, LastIndexOf(name, ".") + 1, Len(name))

DATA_EXT == { << ".", "txt" >>, << ".", "csv" >>, << ".", "parquet" >>, << ".", "pq" >> }
ZipExt   == << ".", "zip" >>

\* _is_data_file (nested in main)
IsDataFile(name) ==
    LET n == Lower(name)
    IN  \/ EndsWith(n, << ".", "csv" >>)
        \/ EndsWith(n, << ".", "txt" >>)
        \/ EndsWith(n, << ".", "csv", ".", "gz" >>)
        \/ EndsWith(n, << ".", "txt", ".", "gz" >>)

\* Path.rglob("*.zip") matches on the name as written.
IsZipName(name) == EndsWith(name, ZipExt)

\* A file of the raw root: dir is the interval directory it lies in (<<>>
\* at the top level).  An archive carries its entries; an entry that is
\* itself an archive carries the names of the data files inside it.
RootFile(dir, name, iszip, readable, entries) ==
    [ dir |-> dir, name |-> name, iszip |-> iszip, readable |-> readable,
      entries |-> entries ]
ArchiveEntry(dir, name, readable, inner) ==
    [ dir |-> dir, name |-> name, readable |-> readable, inner |-> inner ]

\* discover_files: one item per data file or archive, None for the rest.
DiscoverOne(f) ==
    IF f.dir # <<>>
    THEN IF LastDotPart(f.dir \o f.name) \in DATA_EXT
         THEN [ type |-> "raw", interval |-> f.dir, file |-> f ]
         ELSE IF LastDotPart(f.dir \o f.name) = ZipExt
         THEN [ type |-> "archive", interval |-> f.dir, file |-> f ]
         ELSE [ type |-> "none" ]
    ELSE IF Lower(PathSuffix(f.name)) = ZipExt \/ f.iszip
         THEN [ type |-> "archive", interval |-> PathStem(f.name), file |-> f ]
         ELSE IF Lower(PathSuffix(f.name)) \in DATA_EXT
         THEN [ type |-> "raw", interval |-> <<>>, file |-> f ]
         ELSE [ type |-> "none" ]

IsItem(it) == it.type # "none"

discover_files(root) ==
    SelectSeq([i \in DOMAIN root |-> DiscoverOne(root[i])], IsItem)

\* Path.rglob("*") under a directory: the files below it.
RGlob(d, dir) == { f \in d : IsPrefix(dir, f.path) /\ Len(f.path) > Len(dir) }

FileName(f) == f.path[Len(f.path)]

\* An unzip_archive that extracts whatever the state of the archive.
UnzipAlways(readable) == TRUE

\* unzip_archive: False and nothing written when the archive is bad, else
\* every entry is written below outdir, replacing a file already there.
UnzipOk(readable) == readable

ExtractAll(d, outdir, entries) ==
    LET new == { [ path |-> outdir \o e.dir \o << e.name >>,
                   readable |-> e.readable, inner |-> e.inner ] : e \in entries }
    IN  { f \in d : \A g \in new : g.path # f.path } \cup new

ManifestEntry(f, interval, archive) ==
    [ path |-> f.path, interval |-> interval, archive |-> archive,
      filename |-> FileName(f), tags |-> extract_tags_from_filename(FileName(f)) ]

TagBag(tags) == IF tags = <<>> THEN EmptyBag ELSE SetToBag({ tags[1] })

\* One entry per data file in fs, as a bag, and the bag of their tags.
EntriesOf(fs, interval, archive) ==
    SetToBag({ ManifestEntry(f, interval, archive) : f \in { g \in fs : IsDataFile(FileName(g)) } })

\* all_tags.extend(tags), once for every entry of the bag b.
RECURSIVE TagsOfEntries(_)
TagsOfEntries(b) ==
    IF DOMAIN b = {} THEN EmptyBag
    ELSE LET e    == CHOOSE x \in DOMAIN b : TRUE
             rest == [ x \in DOMAIN b \ { e } |-> b[x] ]
             mine == [ t \in DOMAIN TagBag(e.tags) |-> b[e] ]
         IN  mine (+) TagsOfEntries(rest)

\* The "nested company ZIP" loop of main, over the zips found below outdir:
\* each is extracted to outdir/<stem> and the data files below that
\* directory are listed.  st = [disk, files].
RECURSIVE NestedLoop(_, _, _, _)
NestedLoop(st, zips, outdir, interval) ==
    IF zips = {} THEN st
    ELSE LET z      == CHOOSE y \in zips : TRUE
             target == outdir \o << PathStem(FileName(z)) >>
             ok     == UnzipOk(z.readable)
             inner  == { ArchiveEntry(<<>>, n, TRUE, {}) : n \in z.inner }
             d2     == IF ok THEN ExtractAll(st.disk, target, inner) ELSE st.disk
             found  == IF ok THEN EntriesOf(RGlob(d2, target), interval, FileName(z))
                       ELSE EmptyBag
         IN  NestedLoop([ disk |-> d2, files |-> st.files (+) found ],
                        zips \ { z }, outdir, interval)

FirstDataDir == << "FirstData" >>

\* The body of main's loop for one archive item.
ArchiveItem(d, it) ==
    LET stem   == PathStem(it.file.name)
        outdir == IF stem = it.interval \/ stem = <<>>
                  THEN << it.interval >>
                  ELSE << it.interval, stem >>
        ok     == UnzipOk(it.file.readable)
        d1     == IF ok THEN ExtractAll(d, outdir, it.file.entries) ELSE d
        direct == EntriesOf(RGlob(d1, outdir), it.interval, it.file.name)
        zips   == { f \in RGlob(d1, outdir) : IsZipName(FileName(f)) }
        nested == NestedLoop([ disk |-> d1, files |-> direct ], zips, outdir, it.interval)
        d3     == { f \in nested.disk : ~IsPrefix(outdir \o << FirstDataDir >>, f.path) }
    IN  IF ok THEN [ disk |-> d3, files |-> nested.files ]
        ELSE [ disk |-> d, files |-> EmptyBag ]

\* The `elif item_type == 'raw'` branch as the code's indentation places it:
\* it belongs to `if success:` inside the archive branch, so it is reached
\* only by an archive item, for which its test is false.
RawBranchReached(it) == it.type = "archive" /\ ~UnzipOk(it.file.readable) /\ it.type = "raw"

RawEntry(it) ==
    [ path |-> << it.interval, it.file.name >>, interval |-> it.interval,
      archive |-> <<>>, filename |-> it.file.name,
      tags |-> extract_tags_from_filename(it.file.name) ]

NoManifest == [ files |-> EmptyBag, all_tags |-> {}, tag_counts |-> EmptyBag, written |-> FALSE ]

\* main up to the loop: discover_files, and return when nothing is found.
IngestStart ==
    /\ stage = "0_ingest" /\ item_i = 0
    /\ items' = discover_files(raw_root)
    /\ manifest_files' = EmptyBag
    /\ all_tags' = EmptyBag
    /\ prev_manifest' = manifest
    /\ IF items' = <<>>
       THEN item_i' = 0 /\ stage' = "1_normalize"
       ELSE item_i' = 1 /\ stage' = stage
    /\ UNCHANGED <<raw_root, disk, manifest, runs, tagVars, normVars, dataVars, aggVars,
                   catVars, locVars, runnerVars, writeVars>>

\* One iteration of `for item_type, interval, path in items`.
IngestItem ==
    /\ stage = "0_ingest" /\ item_i >= 1 /\ item_i <= Len(items)
    /\ LET it  == items[item_i]
           res == IF it.type = "archive" THEN ArchiveItem(disk, it)
                  ELSE [ disk |-> disk, files |-> EmptyBag ]
           raw == IF RawBranchReached(it) THEN SetToBag({ RawEntry(it) }) ELSE EmptyBag
       IN  /\ disk' = res.disk
           /\ manifest_files' = manifest_files (+) res.files (+) raw
           /\ all_tags' = all_tags (+) TagsOfEntries(res.files (+) raw)
    /\ item_i' = item_i + 1
    /\ UNCHANGED <<raw_root, items, manifest, prev_manifest, runVars, tagVars, normVars,
                   dataVars, aggVars, catVars, locVars, runnerVars, writeVars>>

\* main after the loop: Counter(all_tags), sorted keys, json.dump.
WriteManifest ==
    /\ stage = "0_ingest" /\ item_i = Len(items) + 1
    /\ manifest' = [ files |-> manifest_files, all_tags |-> DOMAIN all_tags,
                     tag_counts |-> all_tags, written |-> TRUE ]
    /\ item_i' = 0
    /\ stage' = "1_normalize"
    /\ UNCHANGED <<raw_root, disk, items, manifest_files, all_tags, prev_manifest, runs,
                   tagVars, normVars, dataVars, aggVars, catVars, locVars, runnerVars, writeVars>>

----------------------------------------------------------------------------
(* Calendar: minutes since 2023-01-01 00:00 UTC, within the year 2023 *)

MinutesPerDay == 24 * 60
DaysBeforeMonth == << 0, 31, 59, 90, 120, 151, 181, 212, 243, 273, 304, 334, 365 >>

DayIndex(t) == t \div MinutesPerDay

\* df['time'].dt.year, .dt.month, .dt.day
YearOf(t)  == 2023 + (DayIndex(t) \div 365)
MonthOf(t) == CHOOSE m \in 1..12 :
                  /\ DaysBeforeMonth[m] <= DayIndex(t) % 365
                  /\ DayIndex(t) % 365 < DaysBeforeMonth[m + 1]
DayOf(t)   == (DayIndex(t) % 365) - DaysBeforeMonth[MonthOf(t)] + 1

----------------------------------------------------------------------------
(* 1_normalize.py: process_all_files, combine_and_save *)

\* str.upper(), on the tokens the model uses.
UpperToken(t) == IF t = "a" THEN "A" ELSE IF t = "b" THEN "B" ELSE t
Upper(name) == [i \in DOMAIN name |-> UpperToken(name[i])]

\* extract_symbol_from_filename
extract_symbol_from_filename(filename) ==
    Upper(SplitUnderscoreHead(PathStem(filename)))

\* str comparison of symbols, as the rank of a symbol among those used.
SymbolOrder == << << "A" >>, << "B" >> >>
SymbolRank(sym) ==
    IF \E i \in DOMAIN SymbolOrder : SymbolOrder[i] = sym
    THEN CHOOSE i \in DOMAIN SymbolOrder : SymbolOrder[i] = sym
    ELSE 0

\* df['symbol'] = symbol; df['interval'] = interval
WithColumns(rows, symbol, interval) ==
    [ i \in DOMAIN rows |->
        [ time |-> rows[i].time, open |-> rows[i].open, high |-> rows[i].high,
          low |-> rows[i].low, close |-> rows[i].close, volume |-> rows[i].volume,
          symbol |-> symbol, interval |-> interval ] ]

\* data_path.exists(): an extracted file under etl_tmp, or a raw file.
PathExists(d, root, path) ==
    \/ \E f \in d : f.path = path
    \/ \E i \in DOMAIN root : << root[i].dir, root[i].name >> = path

\* Files normalize_txt_or_csv cannot normalize.  dask is lazy: dd.read_csv
\* reads only a sample of the file when it is called, and the rest when the
\* dataframe is computed.  A file that cannot be opened or whose sample does
\* not parse raises inside normalize_txt_or_csv's try; a file with a line
\* that does not parse beyond the sample raises when combine_and_save
\* computes the combined dataframe.
Name_Bad  == << "A", "_", "bad", ".", "txt" >>
Name_Late == << "A", "_", "late", ".", "txt" >>
ReadFails    == { Name_Bad }
ComputeFails == { Name_Late }

\* normalize_txt_or_csv returns a dataframe for the entry (not None).
Normalizes(e, d, root) == PathExists(d, root, e.path) /\ e.filename \notin ReadFails

\* The dataframes normalize_txt_or_csv may return for one manifest entry.
NormalizedEntry(e, contents) ==
    { WithColumns(df, extract_symbol_from_filename(e.filename), e.interval) :
        df \in normalize_txt_or_csv(contents[e.filename]) }

\* process_all_files: the lists of dataframes it may return, concatenated,
\* for the entries of the bag b that exist (a missing path is skipped).
RECURSIVE ConcatChoices(_, _, _, _)
ConcatChoices(b, d, root, contents) ==
    IF DOMAIN b = {} THEN { <<>> }
    ELSE LET e    == CHOOSE x \in DOMAIN b : TRUE
             rest == IF b[e] = 1 THEN [ x \in DOMAIN b \ { e } |-> b[x] ]
                     ELSE [ x \in DOMAIN b |-> IF x = e THEN b[x] - 1 ELSE b[x] ]
             mine == IF Normalizes(e, d, root) THEN NormalizedEntry(e, contents)
                     ELSE { <<>> }
         IN  { df \o more : df \in mine, more \in ConcatChoices(rest, d, root, contents) }

\* Number of entries of the bag that process_all_files counts as success.
RECURSIVE SuccessCount(_, _, _)
SuccessCount(b, d, root) ==
    IF DOMAIN b = {} THEN 0
    ELSE LET e == CHOOSE x \in DOMAIN b : TRUE
         IN  (IF Normalizes(e, d, root) THEN b[e] ELSE 0)
             + SuccessCount([ x \in DOMAIN b \ { e } |-> b[x] ], d, root)

\* Number of entries of the bag that process_all_files counts as failed: in
\* the branch of a missing path, or in the branch of a None dataframe.
RECURSIVE FailedCount(_, _, _)
FailedCount(b, d, root) ==
    IF DOMAIN b = {} THEN 0
    ELSE LET e == CHOOSE x \in DOMAIN b : TRUE
         IN  (IF ~PathExists(d, root, e.path) THEN b[e]
              ELSE IF e.filename \in ReadFails THEN b[e] ELSE 0)
             + FailedCount([ x \in DOMAIN b \ { e } |-> b[x] ], d, root)

NoStats == [ total |-> 0, success |-> 0, failed |-> 0 ]

\* process_all_files: the stats it logs.
process_all_files_stats(b, d, root) ==
    [ total |-> BagCardinality(b), success |-> SuccessCount(b, d, root),
      failed |-> FailedCount(b, d, root) ]

\* Whether a dataframe process_all_files returned raises when computed.
ComputeRaises(b, d, root) ==
    \E e \in DOMAIN b : Normalizes(e, d, root) /\ e.filename \in ComputeFails

\* Keys of combined.sort_values(['symbol', 'time']).
MaxTime == 365 * MinutesPerDay
SymbolTimeKeys(rows) ==
    [ i \in DOMAIN rows |-> SymbolRank(rows[i].symbol) * MaxTime + rows[i].time ]

\* combine_and_save: dd.concat, then sort_values(['symbol', 'time']); rows
\* of equal symbol and time may come out in any order.
combine_and_save(rows) == SortedOrders(rows, SymbolTimeKeys(rows))

NoData == [ exists |-> FALSE, rows |-> <<>> ]

\* main of 1_normalize.py.  When a dataframe raises in combine_and_save the
\* exception leaves main and the script fails; the combined dataset is then
\* taken to stay as it was.
Normalize ==
    /\ stage = "1_normalize"
    /\ stats' = IF manifest.written
                THEN process_all_files_stats(manifest.files, disk, raw_root)
                ELSE stats
    /\ IF ~manifest.written \/ SuccessCount(manifest.files, disk, raw_root) = 0
       THEN combined' = combined /\ stage' = "2_partition_write"
       ELSE IF ComputeRaises(manifest.files, disk, raw_root)
       THEN combined' = combined /\ stage' = "end"
       ELSE /\ \E rows \in ConcatChoices(manifest.files, disk, raw_root, file_rows) :
                 \E sorted \in combine_and_save(rows) :
                   combined' = [ exists |-> TRUE, rows |-> sorted ]
            /\ stage' = "2_partition_write"
    /\ UNCHANGED <<file_rows, split_at, store, write_ok, runs, ingestVars, tagVars, normVars,
                   aggVars, catVars, locVars, runnerVars, writeVars>>

----------------------------------------------------------------------------
(* 2_partition_write.py: add_partition_columns, write_partitioned_data *)

\* The partitions of a dask dataframe of the given rows: dask decides where
\* a dataframe is cut (by file, row group and block size); here the first
\* `first` rows form partition 0 and the rest partition 1.
Partitions(rows, first) ==
    << SubSeq(rows, 1, IF first < Len(rows) THEN first ELSE Len(rows)),
       SubSeq(rows, first + 1, Len(rows)) >>

\* partition_on=['symbol', 'year', 'month']: the group of a row.
GroupOf(r) == [ symbol |-> r.symbol, year |-> YearOf(r.time), month |-> MonthOf(r.time) ]

InGroup(rows, g) ==
    LET Mine(r) == GroupOf(r) = g IN SelectSeq(rows, Mine)

\* name_function=lambda i: f"part-{i:05d}.parquet": the file of partition i
\* in group g is symbol=<s>/year=<y>/month=<m>/part-<i>.parquet.
FileKey(g, i) == [ symbol |-> g.symbol, year |-> g.year, month |-> g.month, part |-> i ]

\* The files df.to_parquet(root, partition_on=...) writes: one for every
\* partition and every group that has rows in it.
WrittenKeys(parts) ==
    UNION { { FileKey(GroupOf(parts[i][n]), i - 1) : n \in DOMAIN parts[i] } : i \in DOMAIN parts }

\* overwrite=False does not make dask refuse an existing dataset: it only
\* keeps dask from clearing the directory first.  Files are written under
\* the names name_function gives, over any file already at that name, and
\* the other files of the tree stay.
ToParquetPartitioned(tree, parts) ==
    LET keys == WrittenKeys(parts)
    IN  [ k \in DOMAIN tree \cup keys |->
            IF k \in keys
            THEN InGroup(parts[k.part + 1], [ symbol |-> k.symbol, year |-> k.year, month |-> k.month ])
            ELSE tree[k] ]

\* write_partitioned_data(df): the new tree and the value returned.
write_partitioned_data(tree, parts) ==
    [ tree |-> ToParquetPartitioned(tree, parts), ok |-> TRUE ]

\* write_partitioned_data(add_partition_columns(df)) on the dataset that
\* 1_normalize saved: the call main of 2_partition_write.py makes.  main
\* reads the dataset through the name dd, which the script never imports,
\* so the script as it stands raises NameError on that line; the action is
\* the call itself, on the dataset main would have read.
PartitionWrite ==
    /\ stage = "2_partition_write"
    /\ IF ~combined.exists
       THEN UNCHANGED <<store, write_ok>>
       ELSE LET res == write_partitioned_data(store, Partitions(combined.rows, split_at))
            IN  store' = res.tree /\ write_ok' = res.ok
    /\ stage' = "3_aggregate"
    /\ UNCHANGED <<file_rows, split_at, combined, stats, runs, ingestVars, tagVars,
                   normVars, aggVars, catVars, locVars, runnerVars, writeVars>>

----------------------------------------------------------------------------
(* 3_aggregate.py: resample_partition, aggregate_symbol_data,
   process_all_aggregations *)

\* AGGREGATION_INTERVALS, in dict order.
AGGREGATION_INTERVALS == << "5min", "15min", "1h", "4h", "1d", "1w" >>

\* Minutes of the fixed-width rules '5T', '15T', '1H', '4H', '1D'.
RuleMinutes(iv) ==
    CASE iv = "5min"  -> 5
      [] iv = "15min" -> 15
      [] iv = "1h"    -> 60
      [] iv = "4h"    -> 4 * 60
      [] iv = "1d"    -> MinutesPerDay

\* The label pandas' resample gives the bin of timestamp t.  A fixed-width
\* rule bins from midnight, left-closed, labelled by the left edge.  '1W' is
\* W-SUN, right-closed and right-labelled: the bin of t is the week that
\* ends with the Sunday on or after t's day, labelled by that Sunday 00:00.
\* (Day 0 of the calendar, 2023-01-01, is a Sunday.)
BinLabel(iv, t) ==
    IF iv = "1w"
    THEN (DayIndex(t) + ((7 - (DayIndex(t) % 7)) % 7)) * MinutesPerDay
    ELSE (t \div RuleMinutes(iv)) * RuleMinutes(iv)

Max(S) == CHOOSE x \in S : \A y \in S : y <= x
Min(S) == CHOOSE x \in S : \A y \in S : x <= y

RECURSIVE SumVolume(_)
SumVolume(rows) == IF rows = <<>> THEN 0 ELSE rows[1].volume + SumVolume(Tail(rows))

\* .agg({'open': 'first', 'high': 'max', 'low': 'min', 'close': 'last',
\*       'volume': 'sum'}) over the rows of one bin, in row order.
AggRow(sym, label, rows) ==
    [ symbol |-> sym, time |-> label,
      open   |-> rows[1].open,
      high   |-> Max({ rows[i].high : i \in DOMAIN rows }),
      low    |-> Min({ rows[i].low : i \in DOMAIN rows }),
      close  |-> rows[Len(rows)].close,
      volume |-> SumVolume(rows) ]

AggKeys(rows) == [ i \in DOMAIN rows |-> SymbolRank(rows[i].symbol) * MaxTime + rows[i].time ]

\* resample_partition: one pandas partition, grouped by symbol and resampled.
\* The bins without rows come out all-NaN and dropna removes them, so the
\* result has one row for every (symbol, bin) that has a row in the partition.
resample_partition(partition_df, iv) ==
    LET bins == { << partition_df[i].symbol, BinLabel(iv, partition_df[i].time) >> :
                    i \in DOMAIN partition_df }
        RowsOf(b) == LET Mine(r) == r.symbol = b[1] /\ BinLabel(iv, r.time) = b[2]
                     IN  SelectSeq(partition_df, Mine)
        out  == { AggRow(b[1], b[2], RowsOf(b)) : b \in bins }
        any  == CHOOSE q \in [ 1..Cardinality(out) -> out ] :
                    \A i, j \in 1..Cardinality(out) : i # j => q[i] # q[j]
    IN  IF partition_df = <<>> THEN <<>> ELSE StableOrder(any, AggKeys(any))

\* dd.read_parquet(PARQUET_ROOT): one dask partition per file, the files in
\* path order.
PathKey(k) == ((SymbolRank(k.symbol) * 10000 + k.year) * 100 + k.month) * 100 + k.part

ReadParquet(tree) ==
    LET ks  == DOMAIN tree
        any == CHOOSE q \in [ 1..Cardinality(ks) -> ks ] :
                   \A i, j \in 1..Cardinality(ks) : i # j => q[i] # q[j]
        ord == StableOrder(any, [ i \in DOMAIN any |-> PathKey(any[i]) ])
    IN  [ i \in DOMAIN ord |-> tree[ord[i]] ]

\* aggregate_symbol_data: map_partitions(resample_partition).
aggregate_symbol_data(parts, iv) ==
    [ i \in DOMAIN parts |-> resample_partition(parts[i], iv) ]

\* Where an I/O error may hit the iteration of an interval: nowhere, in
\* output_path.mkdir (before the try), or inside the try (in
\* aggregate_symbol_data or to_parquet).
FailureKinds == { "none", "mkdir", "write" }
NoFailures == [ iv \in Range(AGGREGATION_INTERVALS) |-> "none" ]

\* process_all_aggregations up to its loop.  dd.read_parquet raises on a
\* tree without files, and nothing catches it: the script fails.
AggregateStart ==
    /\ stage = "3_aggregate" /\ agg_i = 0
    /\ agg_log' = <<>>
    /\ agg_dirs' = [ agg_dirs EXCEPT !.root = TRUE ]
    /\ IF DOMAIN store = {}
       THEN stage' = "end" /\ agg_i' = 0
       ELSE stage' = stage /\ agg_i' = 1
    /\ UNCHANGED <<agg, io_fails, runs, dataVars, ingestVars, tagVars, normVars, catVars,
                   locVars, runnerVars, writeVars>>

\* One iteration of `for interval_name, interval_str in AGGREGATION_INTERVALS`.
\* An exception inside the try is logged and the loop continues, the
\* interval's tree taken to stay as it was; an exception of
\* output_path.mkdir, which precedes the try, leaves the function and the
\* script fails.
AggregateInterval ==
    /\ stage = "3_aggregate" /\ agg_i >= 1
    /\ LET iv == AGGREGATION_INTERVALS[agg_i]
       IN  /\ agg' = IF io_fails[iv] = "none"
                     THEN [ agg EXCEPT ![iv] =
                              ToParquetPartitioned(@, aggregate_symbol_data(ReadParquet(store), iv)) ]
                     ELSE agg
           /\ agg_log' = Append(agg_log, [ interval |-> iv, ok |-> io_fails[iv] = "none" ])
           /\ agg_dirs' = IF io_fails[iv] = "mkdir" THEN agg_dirs
                          ELSE [ agg_dirs EXCEPT !.intervals = @ \cup { iv } ]
           /\ IF io_fails[iv] = "mkdir"
              THEN agg_i' = 0 /\ stage' = "end"
              ELSE IF agg_i = Len(AGGREGATION_INTERVALS)
              THEN agg_i' = 0 /\ stage' = "4_metadata"
              ELSE agg_i' = agg_i + 1 /\ stage' = stage
    /\ UNCHANGED <<io_fails, runs, dataVars, ingestVars, tagVars, normVars, catVars, locVars, runnerVars, writeVars>>

----------------------------------------------------------------------------
(* 4_metadata.py: the catalog *)

RECURSIVE Flatten(_)
Flatten(parts) == IF parts = <<>> THEN <<>> ELSE Head(parts) \o Flatten(Tail(parts))

\* The stored bars of a symbol, in the order a read of the tree gives them.
StoredBars(tree, sym) ==
    LET Mine(r) == r.symbol = sym IN SelectSeq(Flatten(ReadParquet(tree)), Mine)

StoredSymbols(tree) == { k.symbol : k \in DOMAIN tree }

\* file_size_bytes: a file's size, as a function of its rows.
FileSize(rows) == 1 + Len(rows)

\* compute_metadata_for_parquet_file, with parse_partition_path's keys.
PartitionRow(k, rows) ==
    [ symbol |-> k.symbol, year |-> k.year, month |-> k.month, path |-> k,
      min_time |-> Min({ rows[i].time : i \in DOMAIN rows }),
      max_time |-> Max({ rows[i].time : i \in DOMAIN rows }),
      row_count |-> Len(rows), file_size_bytes |-> FileSize(rows) ]

\* catalog_main_partitions: a row for every file that has rows.
catalog_main_partitions(tree) ==
    { PartitionRow(k, tree[k]) : k \in { x \in DOMAIN tree : Len(tree[x]) > 0 } }

\* catalog_aggregations: the same for every interval=<name> directory.
catalog_aggregations(aggtree) ==
    UNION { { [ interval |-> iv, row |-> PartitionRow(k, aggtree[iv][k]) ] :
                k \in { x \in DOMAIN aggtree[iv] : Len(aggtree[iv][x]) > 0 } } :
            iv \in DOMAIN aggtree }

RECURSIVE SumOf(_, _)
SumOf(S, field) ==
    IF S = {} THEN 0
    ELSE LET x == CHOOSE y \in S : TRUE IN x[field] + SumOf(S \ { x }, field)

\* A summary that would be taken per partition file.
summaries_per_file(partitions) ==
    { [ symbol |-> r.symbol, min_time |-> r.min_time, max_time |-> r.max_time,
        total_rows |-> r.row_count, partition_count |-> 1,
        total_size_bytes |-> r.file_size_bytes ] : r \in partitions }

\* build_symbol_summaries: SELECT ... FROM partitions GROUP BY symbol.
build_symbol_summaries(partitions) ==
    { LET mine == { r \in partitions : r.symbol = sym }
      IN  [ symbol |-> sym,
            min_time |-> Min({ r.min_time : r \in mine }),
            max_time |-> Max({ r.max_time : r \in mine }),
            total_rows |-> SumOf(mine, "row_count"),
            partition_count |-> Cardinality(mine),
            total_size_bytes |-> SumOf(mine, "file_size_bytes") ] :
      sym \in { r.symbol : r \in partitions } }

EmptyCatalog == [ partitions |-> {}, aggregations |-> {}, symbols |-> {} ]

\* A schema that would keep the tables of the run before.
KeepTables(db) == db

\* initialize_catalog_db: DROP TABLE IF EXISTS for the three tables, then
\* CREATE TABLE: whatever the database held, the tables are empty.
initialize_catalog_db(db) == EmptyCatalog

\* An insert under a constraint UNIQUE(symbol, year, month): the rows of one
\* partition directory would replace each other.
InsertByPartition(table, rows) ==
    LET Same(a, b) == a.symbol = b.symbol /\ a.year = b.year /\ a.month = b.month
    IN  { r \in table : \A n \in rows : ~Same(n, r) }
            \cup { r \in rows : r = CHOOSE x \in rows : Same(x, r) }

\* INSERT OR REPLACE INTO partitions, UNIQUE(symbol, year, month, path).
InsertPartitions(table, rows) ==
    { r \in table : \A n \in rows : n.path # r.path } \cup rows

\* INSERT OR REPLACE INTO aggregations, UNIQUE(interval, symbol, year, month, path).
InsertAggregations(table, rows) ==
    { r \in table : \A n \in rows : n.interval # r.interval \/ n.row.path # r.row.path }
        \cup rows

\* INSERT OR REPLACE INTO symbols, PRIMARY KEY symbol.
InsertSymbols(table, rows) ==
    { r \in table : \A n \in rows : n.symbol # r.symbol } \cup rows

\* main of 4_metadata.py up to build_symbol_summaries: the tables are
\* dropped and created, then filled from the two trees.  With no partitions
\* row, build_symbol_summaries raises after its commit (SUM is NULL and
\* f"{total_rows:,}" fails): the tables are as written here all the same.
CatalogBuild ==
    /\ stage = "4_metadata"
    /\ prev_catalog' = catalog
    /\ LET db    == initialize_catalog_db(catalog)
           parts == InsertPartitions(db.partitions, catalog_main_partitions(store))
       IN  catalog' = [ partitions |-> parts,
                        aggregations |-> InsertAggregations(db.aggregations,
                                                            catalog_aggregations(agg)),
                        symbols |-> InsertSymbols(db.symbols, build_symbol_summaries(parts)) ]
    /\ stage' = "end"
    /\ UNCHANGED <<removed, dd_bound, report, saved, runs, dataVars, aggVars, ingestVars, tagVars,
                   normVars, locVars, runnerVars, writeVars>>

\* The start of the next pipeline run (run_all.py is started again).
NextRun ==
    /\ stage = "end" /\ runs < MaxRuns
    /\ runs' = runs + 1
    /\ stage' = "0_ingest"
    /\ UNCHANGED <<ingestVars, tagVars, normVars, dataVars, aggVars, catVars, locVars, runnerVars, writeVars>>

----------------------------------------------------------------------------
(* Initial states *)

Name_A1   == << "A", "_", "1", ".", "txt" >>
Name_A2   == << "A", "_", "2", ".", "txt" >>
Name_A3   == << "A", "_", "3", ".", "txt" >>
Name_B1   == << "B", "_", "1", ".", "csv" >>
Name_B2   == << "b", "_", "2", ".", "txt" >>
Name_X    == << "X", ".", "zip" >>
Name_N    == << "N", ".", "zip" >>
Name_5min == << "5min", ".", "zip" >>
Dir_1hour == << "1hour" >>

\* The files a raw-data root may hold, in listing order: a raw file and an
\* archive of two data files under the interval directory 1hour, a
\* top-level archive holding a nested archive, and a top-level raw file.
RootUniverse ==
    << RootFile(Dir_1hour, Name_A3, FALSE, FALSE, {}),
       RootFile(Dir_1hour, Name_X, TRUE, TRUE,
                { ArchiveEntry(<<>>, Name_A1, TRUE, {}),
                  ArchiveEntry(<<>>, Name_B2, TRUE, {}) }),
       RootFile(<<>>, Name_5min, TRUE, TRUE,
                { ArchiveEntry(<<>>, Name_N, TRUE, { Name_A2 }) }),
       RootFile(<<>>, Name_B1, FALSE, FALSE, {}) >>

RECURSIVE Keep(_, _, _)
Keep(s, S, i) ==
    IF i > Len(s) THEN <<>>
    ELSE (IF i \in S THEN << s[i] >> ELSE <<>>) \o Keep(s, S, i + 1)

Roots == { Keep(RootUniverse, S, 1) : S \in SUBSET DOMAIN RootUniverse }

\* Timestamps of the bars in the data files: 2023-01-31 00:00 and 00:01
\* (one hour, one day), and 2023-02-01 00:00 (the same week, the next month).
BarTimes == { 30 * MinutesPerDay, 30 * MinutesPerDay + 1, 31 * MinutesPerDay }

Bar(t, p) == [ time |-> t, open |-> p, high |-> p, low |-> p, close |-> p, volume |-> 1 ]
BarRows == { Bar(t, p) : t \in BarTimes, p \in { 1, 2 } }

\* The contents the data files may have.
FileContents ==
    { (Name_A1 :> a) @@ (Name_A2 :> b) @@ (Name_A3 :> << Bar(0, 1) >>)
        @@ (Name_B1 :> << Bar(0, 1) >>) @@ (Name_B2 :> << Bar(30 * MinutesPerDay, 1) >>) :
        a \in SeqsUpTo(BarRows, MaxRows), b \in SeqsUpTo({ Bar(t, 2) : t \in BarTimes }, 1) }

IdleTags == fn_name = <<>> /\ fn_tags = <<>> /\ fn_done = TRUE
IdleNorm == nf_rows = <<>> /\ nf_out = <<>> /\ nf_done = TRUE
IdleIngest ==
    /\ raw_root = <<>> /\ disk = {} /\ items = <<>> /\ item_i = 0
    /\ manifest_files = EmptyBag /\ all_tags = EmptyBag
    /\ manifest = NoManifest /\ prev_manifest = NoManifest
IdleData ==
    /\ file_rows = <<>> /\ split_at = 0 /\ combined = NoData
    /\ store = <<>> /\ write_ok = TRUE /\ stats = NoStats
NoAgg == [ iv \in Range(AGGREGATION_INTERVALS) |-> <<>> ]
NoAggDirs == [ root |-> FALSE, intervals |-> {} ]
IdleAgg ==
    /\ agg = NoAgg /\ agg_i = 0 /\ agg_log = <<>> /\ io_fails = NoFailures
    /\ agg_dirs = NoAggDirs
\* ValidationReport.__init__
NoReport == [ checks |-> <<>>, errors |-> <<>>, warnings |-> <<>> ]
NoSummary == [ written |-> FALSE ]

IdleCat ==
    /\ catalog = EmptyCatalog /\ prev_catalog = EmptyCatalog /\ removed = {}
    /\ dd_bound = FALSE /\ report = NoReport /\ saved = NoSummary
NoRunner == [ i |-> 0, results |-> <<>>, started |-> <<>>, done |-> FALSE ]
NoEnv == [ present |-> {}, exit_ok |-> <<>>, raw_exists |-> TRUE, stop_on_error |-> TRUE ]
IdleRunner == runner = NoRunner /\ env = NoEnv
NoWrite == [ phase |-> "idle", parts |-> <<>>, todo |-> {} ]
IdleWrite == wr = NoWrite /\ partial = {}
IdleLoc == lc_path = <<>> /\ lc_out = <<>> /\ lc_done = TRUE
IdleRun == runs = 0 /\ stage = "end"

InitTags ==
    /\ IdleRunner /\ IdleWrite
    /\ fn_name \in SeqsUpTo(NameAlphabet, MaxNameLen)
    /\ fn_tags = <<>>
    /\ fn_done = FALSE
    /\ IdleNorm /\ IdleIngest /\ IdleData /\ IdleAgg /\ IdleCat /\ IdleLoc /\ IdleRun

InitNorm ==
    /\ IdleRunner /\ IdleWrite
    /\ nf_rows \in SeqsUpTo(RawRows, MaxRows)
    /\ nf_out = <<>>
    /\ nf_done = FALSE
    /\ IdleTags /\ IdleIngest /\ IdleData /\ IdleAgg /\ IdleCat /\ IdleLoc /\ IdleRun

Init ==
    /\ IdleRunner /\ IdleWrite
    /\ raw_root \in Roots
    /\ disk = {} /\ items = <<>> /\ item_i = 0
    /\ manifest_files = EmptyBag /\ all_tags = EmptyBag
    /\ manifest = NoManifest /\ prev_manifest = NoManifest
    /\ file_rows \in FileContents
    /\ split_at \in 0..MaxSplit
    /\ combined = NoData /\ store = <<>> /\ write_ok = TRUE /\ stats = NoStats
    /\ IdleAgg /\ IdleCat /\ IdleLoc
    /\ runs = 1 /\ stage = "0_ingest"
    /\ IdleTags /\ IdleNorm

Next ==
    \/ IngestStart \/ IngestItem \/ WriteManifest
    \/ Normalize \/ PartitionWrite
    \/ AggregateStart \/ AggregateInterval
    \/ CatalogBuild
    \/ NextRun

Spec == Init /\ [][Next]_vars

SpecTags == InitTags /\ [][ExtractTags]_vars
SpecNorm == InitNorm /\ [][NormalizeFile]_vars

\* 0_ingest.py started again by itself, etl_tmp kept as the last run left it.
IngestAgain ==
    /\ stage = "1_normalize" /\ runs < MaxRuns
    /\ runs' = runs + 1
    /\ stage' = "0_ingest"
    /\ UNCHANGED <<ingestVars, tagVars, normVars, dataVars, aggVars, catVars, locVars, runnerVars, writeVars>>

Name_A4   == << "A", "_", "4", ".", "txt" >>
Name_A5   == << "A", "_", "5", ".", "txt" >>
Name_Y    == << "Y", ".", "zip" >>
Name_M    == << "M", ".", "zip" >>

\* The files a raw-data root may hold when archives may be corrupt: those of
\* RootUniverse, a corrupt archive next to the readable one under 1hour, and
\* a corrupt archive nested next to the readable one in the top-level archive.
IngestUniverse ==
    << RootFile(Dir_1hour, Name_A3, FALSE, FALSE, {}),
       RootFile(Dir_1hour, Name_X, TRUE, TRUE,
                { ArchiveEntry(<<>>, Name_A1, TRUE, {}),
                  ArchiveEntry(<<>>, Name_B2, TRUE, {}) }),
       RootFile(Dir_1hour, Name_Y, FALSE, FALSE,
                { ArchiveEntry(<<>>, Name_A4, TRUE, {}) }),
       RootFile(<<>>, Name_5min, TRUE, TRUE,
                { ArchiveEntry(<<>>, Name_N, TRUE, { Name_A2 }),
                  ArchiveEntry(<<>>, Name_M, FALSE, { Name_A5 }) }),
       RootFile(<<>>, Name_B1, FALSE, FALSE, {}) >>

IngestRoots == { Keep(IngestUniverse, S, 1) : S \in SUBSET DOMAIN IngestUniverse }

InitIngest ==
    /\ IdleRunner /\ IdleWrite
    /\ raw_root \in IngestRoots
    /\ disk = {} /\ items = <<>> /\ item_i = 0
    /\ manifest_files = EmptyBag /\ all_tags = EmptyBag
    /\ manifest = NoManifest /\ prev_manifest = NoManifest
    /\ IdleData /\ IdleAgg /\ IdleCat /\ IdleLoc
    /\ runs = 1 /\ stage = "0_ingest"
    /\ IdleTags /\ IdleNorm

NextIngest == IngestStart \/ IngestItem \/ WriteManifest \/ IngestAgain

SpecIngest == InitIngest /\ [][NextIngest]_vars

----------------------------------------------------------------------------
(* 1_normalize.py run over a given manifest *)

\* The files under etl_tmp when 1_normalize.py starts: extracted copies of a
\* good file and of the two files that cannot be normalized.
FilesDisk ==
    { [ path |-> << Dir_1hour, << "X" >>, n >>, readable |-> TRUE, inner |-> {} ] :
        n \in { Name_A1, Name_Bad, Name_Late } }

\* The entries a manifest may list: the three files on disk, and a file that
\* was listed under FirstData and removed with that directory.
FilesEntries ==
    { ManifestEntry([ path |-> << Dir_1hour, << "X" >>, n >> ], Dir_1hour, Name_X) :
        n \in { Name_A1, Name_Bad, Name_Late } }
    \cup { ManifestEntry([ path |-> << Dir_1hour, << "X" >>, FirstDataDir, Name_A2 >> ],
                         Dir_1hour, Name_X) }

\* The manifests: every entry listed up to MaxCopies times.
FilesManifests ==
    { [ files |-> [ e \in { x \in FilesEntries : c[x] > 0 } |-> c[e] ],
        all_tags |-> { << "A" >> }, tag_counts |-> EmptyBag, written |-> TRUE ] :
        c \in [ FilesEntries -> 0..MaxCopies ] }

InitFiles ==
    /\ IdleRunner /\ IdleWrite
    /\ manifest \in FilesManifests \cup { NoManifest }
    /\ prev_manifest = NoManifest
    /\ raw_root = <<>> /\ disk = FilesDisk /\ items = <<>> /\ item_i = 0
    /\ manifest_files = EmptyBag /\ all_tags = EmptyBag
    /\ file_rows \in { (Name_A1 :> a) @@ (Name_Bad :> <<>>) @@ (Name_Late :> <<>>) :
                         a \in SeqsUpTo(BarRows, MaxRows) }
    /\ split_at = 0 /\ combined = NoData /\ store = <<>> /\ write_ok = TRUE
    /\ stats = NoStats
    /\ IdleAgg /\ IdleCat /\ IdleLoc
    /\ runs = 1 /\ stage = "1_normalize"
    /\ IdleTags /\ IdleNorm

SpecFiles == InitFiles /\ [][Normalize]_vars

----------------------------------------------------------------------------
(* 3_aggregate.py run over a given partition tree, with I/O errors *)

\* The dataframes of symbol A that write_partitioned_data may be given.
AggFrames ==
    { WithColumns(r, << "A" >>, Dir_1hour) :
        r \in { q \in SeqsUpTo(BarRows, MaxRows) :
                  q # <<>> /\ \A i, j \in DOMAIN q : i < j => q[i].time < q[j].time } }

\* The partition trees a first write_partitioned_data leaves.
AggStores ==
    { write_partitioned_data(<<>>, Partitions(rows, sp)).tree :
        rows \in AggFrames, sp \in 0..MaxSplit }

InitAgg ==
    /\ IdleRunner /\ IdleWrite
    /\ store \in AggStores
    /\ io_fails \in [ Range(AGGREGATION_INTERVALS) -> FailureKinds ]
    /\ agg = NoAgg /\ agg_i = 0 /\ agg_log = <<>> /\ agg_dirs = NoAggDirs
    /\ file_rows = <<>> /\ split_at = 0 /\ combined = NoData /\ write_ok = TRUE
    /\ stats = NoStats
    /\ IdleIngest /\ IdleCat /\ IdleLoc /\ IdleTags /\ IdleNorm
    /\ runs = 1 /\ stage = "3_aggregate"

NextAgg == AggregateStart \/ AggregateInterval

SpecAgg == InitAgg /\ [][NextAgg]_vars

----------------------------------------------------------------------------
(* 4_metadata.py run again over trees that stay or lose a file *)

\* Bars in ascending time, at most MaxRows of them.
AscendingBars(prices) ==
    { q \in SeqsUpTo({ Bar(t, p) : t \in BarTimes, p \in prices }, MaxRows) :
        \A i, j \in DOMAIN q : i < j => q[i].time < q[j].time }

\* The dataframes of the symbols A and B that write_partitioned_data may be given.
CatFrames ==
    { WithColumns(a, << "A" >>, Dir_1hour) \o WithColumns(b, << "B" >>, Dir_1hour) :
        a \in AscendingBars({ 1, 2 }) \ { <<>> }, b \in AscendingBars({ 1 }) }

\* The partition trees a first write_partitioned_data leaves.
CatStores ==
    { write_partitioned_data(<<>>, Partitions(rows, sp)).tree :
        rows \in CatFrames, sp \in 0..MaxSplit }

\* The aggregate trees process_all_aggregations leaves when nothing fails.
AggregateAll(tree) ==
    [ iv \in Range(AGGREGATION_INTERVALS) |->
        ToParquetPartitioned(<<>>, aggregate_symbol_data(ReadParquet(tree), iv)) ]

\* The files of the two trees.
MainFile(k) == [ tree |-> "main", path |-> k ]
AggFile(iv, k) == [ tree |-> iv, path |-> k ]
TreeFiles ==
    { MainFile(k) : k \in DOMAIN store }
        \cup UNION { { AggFile(iv, k) : k \in DOMAIN agg[iv] } : iv \in DOMAIN agg }

Without(tree, name, gone) ==
    [ k \in { x \in DOMAIN tree : [ tree |-> name, path |-> x ] \notin gone } |-> tree[k] ]

\* Between two runs of 4_metadata.py: the trees stay as they are, or a file
\* is removed from one of them.
TreeChange ==
    /\ stage = "end" /\ runs < MaxRuns
    /\ \E gone \in { {} } \cup { { f } : f \in TreeFiles } :
          /\ removed' = gone
          /\ store' = Without(store, "main", gone)
          /\ agg' = [ iv \in DOMAIN agg |-> Without(agg[iv], iv, gone) ]
    /\ runs' = runs + 1
    /\ stage' = "4_metadata"
    /\ UNCHANGED <<catalog, prev_catalog, dd_bound, report, saved, agg_i, agg_log, io_fails,
                   agg_dirs,
                   file_rows, split_at,
                   combined, write_ok, stats, ingestVars, tagVars, normVars, locVars, runnerVars, writeVars>>

InitCat ==
    /\ IdleRunner /\ IdleWrite
    /\ store \in CatStores
    /\ agg = AggregateAll(store)
    /\ agg_i = 0 /\ agg_log = <<>> /\ io_fails = NoFailures
    /\ agg_dirs = [ root |-> TRUE, intervals |-> Range(AGGREGATION_INTERVALS) ]
    /\ file_rows = <<>> /\ split_at = 0 /\ combined = NoData /\ write_ok = TRUE
    /\ stats = NoStats
    /\ IdleCat /\ IdleIngest /\ IdleLoc /\ IdleTags /\ IdleNorm
    /\ runs = 1 /\ stage = "4_metadata"

NextCat == CatalogBuild \/ TreeChange

SpecCat == InitCat /\ [][NextCat]_vars

-----------------------------------------------------------------------------
(* 4_metadata.py over trees that hold a file without rows *)

\* A tree in which the files of a set hold no rows.
Emptied(tree, name, empty) ==
    [ k \in DOMAIN tree |->
        IF [ tree |-> name, path |-> k ] \in empty THEN <<>> ELSE tree[k] ]

\* No file, or one file of the main tree or of an interval's tree.
OneFileOf(tree, aggtree) ==
    { {} } \cup { { MainFile(k) } : k \in DOMAIN tree }
           \cup UNION { { { AggFile(iv, k) } : k \in DOMAIN aggtree[iv] } :
                        iv \in DOMAIN aggtree }

InitCatFiles ==
    /\ IdleRunner /\ IdleWrite
    /\ \E base \in CatStores : \E empty \in OneFileOf(base, AggregateAll(base)) :
          /\ store = Emptied(base, "main", empty)
          /\ agg = [ iv \in Range(AGGREGATION_INTERVALS) |->
                       Emptied(AggregateAll(base)[iv], iv, empty) ]
    /\ agg_i = 0 /\ agg_log = <<>> /\ io_fails = NoFailures
    /\ agg_dirs = [ root |-> TRUE, intervals |-> Range(AGGREGATION_INTERVALS) ]
    /\ file_rows = <<>> /\ split_at = 0 /\ combined = NoData /\ write_ok = TRUE
    /\ stats = NoStats
    /\ IdleCat /\ IdleIngest /\ IdleLoc /\ IdleTags /\ IdleNorm
    /\ runs = 1 /\ stage = "4_metadata"

SpecCatFiles == InitCatFiles /\ [][CatalogBuild]_vars

-----------------------------------------------------------------------------
(* 2_partition_write.py: write_partitioned_data, file by file *)

\* The rows df.to_parquet writes to the file of a key.
PartRows(parts, k) ==
    InGroup(parts[k.part + 1], [ symbol |-> k.symbol, year |-> k.year, month |-> k.month ])

\* df.to_parquet(str(OUT_ROOT), partition_on=..., name_function=...) is
\* called: the tasks that write the files of the partitions are scheduled.
\* The directory given is OUT_ROOT itself: every file is written under the
\* path it keeps.
ToParquetCalled ==
    /\ stage = "2_partition_write" /\ wr.phase = "idle"
    /\ wr' = [ wr EXCEPT !.phase = "writing", !.todo = WrittenKeys(wr.parts) ]
    /\ UNCHANGED <<partial, dataVars, runVars, tagVars, normVars, ingestVars, aggVars,
                   catVars, locVars, runnerVars>>

\* A task opens symbol=<s>/year=<y>/month=<m>/part-<i>.parquet for writing:
\* the file is there, without rows and without the parquet footer.  The
\* tasks of different partitions run side by side.
OpenPartFile ==
    /\ wr.phase = "writing"
    /\ \E k \in wr.todo \ partial :
          /\ store' = [ x \in DOMAIN store \cup { k } |-> IF x = k THEN <<>> ELSE store[x] ]
          /\ partial' = partial \cup { k }
    /\ UNCHANGED <<wr, file_rows, split_at, combined, write_ok, stats, runVars, tagVars,
                   normVars, ingestVars, aggVars, catVars, locVars, runnerVars>>

\* The next rows of an open file reach the disk.
WriteRows ==
    /\ wr.phase = "writing"
    /\ \E k \in partial :
          /\ Len(store[k]) < Len(PartRows(wr.parts, k))
          /\ store' = [ store EXCEPT ![k] = Append(@, PartRows(wr.parts, k)[Len(@) + 1]) ]
    /\ UNCHANGED <<wr, partial, file_rows, split_at, combined, write_ok, stats, runVars,
                   tagVars, normVars, ingestVars, aggVars, catVars, locVars, runnerVars>>

\* The footer of a file is written and the file is closed.
ClosePartFile ==
    /\ wr.phase = "writing"
    /\ \E k \in partial :
          /\ store[k] = PartRows(wr.parts, k)
          /\ partial' = partial \ { k }
          /\ wr' = [ wr EXCEPT !.todo = @ \ { k } ]
    /\ UNCHANGED <<dataVars, runVars, tagVars, normVars, ingestVars, aggVars, catVars,
                   locVars, runnerVars>>

\* to_parquet returns: write_partitioned_data returns True.
ToParquetReturns ==
    /\ wr.phase = "writing" /\ wr.todo = {}
    /\ wr' = [ wr EXCEPT !.phase = "done" ]
    /\ write_ok' = TRUE
    /\ UNCHANGED <<partial, file_rows, split_at, combined, store, stats, runVars, tagVars,
                   normVars, ingestVars, aggVars, catVars, locVars, runnerVars>>

\* to_parquet raises while files are still to be written (an I/O error, a
\* task that fails): `except Exception` logs it and returns False.  Nothing
\* removes the files the call has opened.
ToParquetRaises ==
    /\ wr.phase = "writing" /\ wr.todo # {}
    /\ wr' = [ wr EXCEPT !.phase = "failed" ]
    /\ write_ok' = FALSE
    /\ UNCHANGED <<partial, file_rows, split_at, combined, store, stats, runVars, tagVars,
                   normVars, ingestVars, aggVars, catVars, locVars, runnerVars>>

\* The run is cancelled during the call (the process is interrupted or
\* killed): no handler of the script runs.
WriteCancelled ==
    /\ wr.phase = "writing" /\ wr.todo # {}
    /\ wr' = [ wr EXCEPT !.phase = "cancelled" ]
    /\ UNCHANGED <<partial, dataVars, runVars, tagVars, normVars, ingestVars, aggVars,
                   catVars, locVars, runnerVars>>

InitWrite ==
    /\ IdleRunner
    /\ \E rows \in CatFrames : \E sp \in 0..MaxSplit :
          wr = [ phase |-> "idle", parts |-> Partitions(rows, sp), todo |-> {} ]
    /\ partial = {}
    /\ store = <<>> /\ file_rows = <<>> /\ split_at = 0 /\ combined = NoData
    /\ write_ok = TRUE /\ stats = NoStats
    /\ IdleAgg /\ IdleCat /\ IdleIngest /\ IdleLoc /\ IdleTags /\ IdleNorm
    /\ runs = 1 /\ stage = "2_partition_write"

NextWrite ==
    \/ ToParquetCalled
    \/ OpenPartFile
    \/ WriteRows
    \/ ClosePartFile
    \/ ToParquetReturns
    \/ ToParquetRaises
    \/ WriteCancelled

SpecWrite == InitWrite /\ [][NextWrite]_vars

----------------------------------------------------------------------------
(* 5_validate.py: validate_row_counts and validate_time_monotonicity *)

\* min(10, len(symbols)): the number of symbols the time check samples.
SAMPLE_SIZE == 10

\* df['symbol'].unique(): the stored symbols in the order of their directories.
UniqueSymbols(tree) ==
    LET Stored(sym) == sym \in StoredSymbols(tree) IN SelectSeq(SymbolOrder, Stored)

\* symbols[:sample_size]
SampleSymbols(tree) ==
    LET u == UniqueSymbols(tree)
    IN  { u[i] : i \in 1..Min({ SAMPLE_SIZE, Len(u) }) }

\* Series.is_monotonic_increasing: no value is less than the one before it.
is_monotonic_increasing(times) ==
    \A i \in DOMAIN times : i > 1 => times[i - 1] <= times[i]

\* The dd.read_parquet of a check raises when dd is not bound (5_validate.py
\* has no `import dask.dataframe as dd`) and when the tree has no file; the
\* check's `except Exception` records the check as failed.
ReadRaises(tree, bound) == ~bound \/ DOMAIN tree = {}

\* An add_check that would record every check among the errors.
add_check_as_error(r, name, passed) ==
    [ r EXCEPT !.checks = Append(@, [ name |-> name, passed |-> passed ]),
               !.errors = Append(@, [ check |-> name ]) ]

\* ValidationReport.add_check (message and timestamp left out)
add_check(r, name, passed) ==
    [ r EXCEPT !.checks = Append(@, [ name |-> name, passed |-> passed ]),
               !.errors = IF ~passed THEN Append(@, [ check |-> name ]) ELSE @ ]

\* ValidationReport.add_warning
add_warning(r, check) == [ r EXCEPT !.warnings = Append(@, [ check |-> check ]) ]

\* n calls of add_warning
RECURSIVE AddWarnings(_, _, _)
AddWarnings(r, check, n) ==
    IF n = 0 THEN r ELSE AddWarnings(add_warning(r, check), check, n - 1)

\* ValidationReport.save: the summary of the written report
save(r) ==
    [ written |-> TRUE,
      total_checks |-> Len(r.checks),
      passed |-> Cardinality({ i \in DOMAIN r.checks : r.checks[i].passed }),
      failed |-> Cardinality({ i \in DOMAIN r.checks : ~r.checks[i].passed }),
      warnings |-> Len(r.warnings) ]

\* The symbols of the catalog whose SUM(row_count) differs from
\* df.groupby('symbol').size(): the loop is over the catalog's symbols.
Mismatches(db, tree) ==
    { sym \in { r.symbol : r \in db.partitions } :
        SumOf({ r \in db.partitions : r.symbol = sym }, "row_count")
            # Len(StoredBars(tree, sym)) }

\* validate_row_counts: what the call returns.
validate_row_counts(db, tree, bound) ==
    IF ReadRaises(tree, bound) THEN FALSE ELSE Mismatches(db, tree) = {}

\* validate_row_counts: what the call records in the report.
RowCountsRecorded(r, db, tree, bound) ==
    IF ReadRaises(tree, bound) THEN add_check(r, "row_counts_validation", FALSE)
    ELSE LET n == Cardinality(Mismatches(db, tree))
         IN  IF n > 0
             THEN AddWarnings(add_check(r, "row_counts_match", FALSE), "row_count_mismatch",
                              Min({ n, 5 }))
             ELSE add_check(r, "row_counts_match", TRUE)

\* The sampled symbols whose stored times are not monotonic increasing.
Violations(tree) ==
    { sym \in SampleSymbols(tree) :
        LET bars == StoredBars(tree, sym)
        IN  ~is_monotonic_increasing([ i \in DOMAIN bars |-> bars[i].time ]) }

\* validate_time_monotonicity: what the call returns.
validate_time_monotonicity(tree, bound) ==
    IF ReadRaises(tree, bound) THEN FALSE ELSE Violations(tree) = {}

\* validate_time_monotonicity: what the call records in the report; a
\* symbol that is not monotonic has a negative difference, hence a warning.
TimeMonotonicityRecorded(r, tree, bound) ==
    IF ReadRaises(tree, bound) THEN add_check(r, "time_monotonicity", FALSE)
    ELSE add_check(AddWarnings(r, "time_monotonicity", Cardinality(Violations(tree))),
                   "time_monotonicity", Violations(tree) = {})

\* main of 5_validate.py, for validate_row_counts and
\* validate_time_monotonicity, and report.save; it writes neither tree nor
\* catalog.
Validate ==
    /\ stage = "end" /\ ~saved.written
    /\ report' = TimeMonotonicityRecorded(
                     RowCountsRecorded(NoReport, catalog, store, dd_bound), store, dd_bound)
    /\ saved' = save(report')
    /\ UNCHANGED <<catalog, prev_catalog, removed, dd_bound, runs, stage, dataVars, aggVars,
                   ingestVars, tagVars, normVars, locVars, runnerVars, writeVars>>

\* The dataframes combine_and_save may leave: sorted by symbol and time, two
\* bars of a symbol at one time when two source files hold it.
ValFrames ==
    { WithColumns(a, << "A" >>, Dir_1hour) \o WithColumns(b, << "B" >>, Dir_1hour) :
        a \in { q \in SeqsUpTo(BarRows, MaxRows) :
                  \A i, j \in DOMAIN q : i < j => q[i].time <= q[j].time },
        b \in { <<>>, << Bar(30 * MinutesPerDay, 1) >> } }

\* 2_partition_write.py writes a dataframe into the tree; 4_metadata.py is
\* run after it, or (from the second write on) is not.
WriteFrame ==
    /\ stage = "2_partition_write"
    /\ \E rows \in ValFrames \ { <<>> }, sp \in 0..MaxSplit :
          store' = write_partitioned_data(store, Partitions(rows, sp)).tree
    /\ stage' \in IF runs = 1 THEN { "4_metadata" } ELSE { "4_metadata", "end" }
    /\ report' = NoReport /\ saved' = NoSummary
    /\ UNCHANGED <<catalog, prev_catalog, removed, dd_bound, runs, file_rows, split_at,
                   combined, write_ok, stats, aggVars, ingestVars, tagVars, normVars, locVars, runnerVars, writeVars>>

\* The scripts are run again.
WriteAgain ==
    /\ stage = "end" /\ runs < MaxRuns
    /\ runs' = runs + 1
    /\ stage' = "2_partition_write"
    /\ UNCHANGED <<catVars, dataVars, aggVars, ingestVars, tagVars, normVars, locVars, runnerVars, writeVars>>

InitVal ==
    /\ IdleRunner /\ IdleWrite
    /\ dd_bound \in BOOLEAN
    /\ catalog = EmptyCatalog /\ prev_catalog = EmptyCatalog /\ removed = {}
    /\ report = NoReport /\ saved = NoSummary
    /\ IdleData /\ IdleAgg /\ IdleIngest /\ IdleLoc /\ IdleTags /\ IdleNorm
    /\ runs = 1 /\ stage = "2_partition_write"

NextVal == WriteFrame \/ CatalogBuild \/ Validate \/ WriteAgain

SpecVal == InitVal /\ [][NextVal]_vars

----------------------------------------------------------------------------
(* 5_validate.py: a ValidationReport under any calls of its methods *)

CheckNames == { "row_counts_match", "time_monotonicity" }

\* report.add_check(name, passed, message)
AddCheck ==
    /\ Len(report.checks) < MaxChecks
    /\ \E name \in CheckNames, passed \in BOOLEAN : report' = add_check(report, name, passed)
    /\ UNCHANGED <<catalog, prev_catalog, removed, dd_bound, saved, runs, stage, dataVars,
                   aggVars, ingestVars, tagVars, normVars, locVars, runnerVars, writeVars>>

\* report.add_warning(check, message)
AddWarning ==
    /\ Len(report.warnings) < MaxChecks
    /\ \E name \in CheckNames : report' = add_warning(report, name)
    /\ UNCHANGED <<catalog, prev_catalog, removed, dd_bound, saved, runs, stage, dataVars,
                   aggVars, ingestVars, tagVars, normVars, locVars, runnerVars, writeVars>>

\* report.save(filename)
Save ==
    /\ saved' = save(report)
    /\ UNCHANGED <<catalog, prev_catalog, removed, dd_bound, report, runs, stage, dataVars,
                   aggVars, ingestVars, tagVars, normVars, locVars, runnerVars, writeVars>>

InitReport ==
    /\ IdleRunner /\ IdleWrite
    /\ IdleCat /\ IdleData /\ IdleAgg /\ IdleIngest /\ IdleLoc /\ IdleTags /\ IdleNorm
    /\ IdleRun

NextReport == AddCheck \/ AddWarning \/ Save

SpecReport == InitReport /\ [][NextReport]_vars

----------------------------------------------------------------------------
(* 5_validate.py: validate_partition_coverage *)

\* (max_date.year - min_date.year) * 12 + (max_date.month - min_date.month) + 1
MonthsDiff(min_time, max_time) ==
    (YearOf(max_time) - YearOf(min_time)) * 12 + (MonthOf(max_time) - MonthOf(min_time)) + 1

\* SELECT symbol, min_time, max_time, COUNT(*) FROM partitions GROUP BY symbol:
\* min_time and max_time are bare columns, which SQLite takes from one row
\* of the group, whichever it chooses; picked names that row for every symbol.
SymbolsData(db, picked) ==
    { [ symbol |-> sym, min_time |-> picked[sym].min_time, max_time |-> picked[sym].max_time,
        partition_count |-> Cardinality({ r \in db.partitions : r.symbol = sym }) ] :
      sym \in DOMAIN picked }

\* The rows SQLite may choose: for every symbol one of its partitions rows.
RowChoices(db) ==
    { f \in [ { r.symbol : r \in db.partitions } -> db.partitions ] :
        \A sym \in DOMAIN f : f[sym].symbol = sym }

\* partition_count < months_diff * 0.5
Gaps(data) ==
    { d \in data : 2 * d.partition_count < MonthsDiff(d.min_time, d.max_time) }

\* validate_partition_coverage: what the call records in the report.
CoverageRecorded(r, data) ==
    add_check(IF Gaps(data) # {} THEN add_warning(r, "partition_coverage") ELSE r,
              "partition_coverage", Gaps(data) = {})

\* validate_partition_coverage(report) on a new report, after the catalog build.
ValidateCoverage ==
    /\ stage = "end" /\ report.checks = <<>>
    /\ \E picked \in RowChoices(catalog) :
          report' = CoverageRecorded(report, SymbolsData(catalog, picked))
    /\ UNCHANGED <<catalog, prev_catalog, removed, dd_bound, saved, runs, stage, dataVars,
                   aggVars, ingestVars, tagVars, normVars, locVars, runnerVars, writeVars>>

\* Bars in the middle of January, February and June 2023.
CovTimes == { 14 * MinutesPerDay, 45 * MinutesPerDay, 165 * MinutesPerDay }

\* The dataframes written: bars of A in some of the three months, and of B
\* in none or one.
CovFrames ==
    { WithColumns(a, << "A" >>, Dir_1hour) \o WithColumns(b, << "B" >>, Dir_1hour) :
        a \in { q \in SeqsUpTo({ Bar(t, 1) : t \in CovTimes }, 3) :
                  q # <<>> /\ \A i, j \in DOMAIN q : i < j => q[i].time < q[j].time },
        b \in { <<>>, << Bar(45 * MinutesPerDay, 1) >> } }

InitCov ==
    /\ IdleRunner /\ IdleWrite
    /\ store \in { write_partitioned_data(<<>>, Partitions(rows, sp)).tree :
                     rows \in CovFrames, sp \in 0..MaxSplit }
    /\ file_rows = <<>> /\ split_at = 0 /\ combined = NoData /\ write_ok = TRUE
    /\ stats = NoStats
    /\ IdleCat /\ IdleAgg /\ IdleIngest /\ IdleLoc /\ IdleTags /\ IdleNorm
    /\ runs = 1 /\ stage = "4_metadata"

NextCov == CatalogBuild \/ ValidateCoverage

SpecCov == InitCov /\ [][NextCov]_vars

----------------------------------------------------------------------------
(* 5_validate.py: validate_aggregations *)

\* The intervals of AGG_ROOT.glob("interval=*"), in the order taken here.
GlobIntervals(dirs) ==
    LET Exists(iv) == iv \in dirs.intervals IN SelectSeq(AGGREGATION_INTERVALS, Exists)

\* The loop of validate_aggregations from the n-th directory on: a check per
\* interval directory, passed when dd.read_parquet and the counts succeed.
RECURSIVE IntervalChecks(_, _, _, _)
IntervalChecks(r, ivs, trees, bound) ==
    IF ivs = <<>> THEN r
    ELSE IntervalChecks(add_check(r, "aggregation_" \o Head(ivs),
                                  ~ReadRaises(trees[Head(ivs)], bound)),
                        Tail(ivs), trees, bound)

\* validate_aggregations: what the call records in the report.
validate_aggregations(r, dirs, trees, bound) ==
    IF ~dirs.root THEN add_warning(r, "aggregations")
    ELSE IF GlobIntervals(dirs) = <<>> THEN add_check(r, "aggregations_exist", FALSE)
    ELSE IntervalChecks(r, GlobIntervals(dirs), trees, bound)

\* validate_aggregations(report) on a new report, before 3_aggregate.py has
\* run or after it has ended.
ValidateAggregations ==
    /\ agg_i = 0 /\ report = NoReport
    /\ report' = validate_aggregations(report, agg_dirs, agg, dd_bound)
    /\ UNCHANGED <<catalog, prev_catalog, removed, dd_bound, saved, runs, stage, dataVars,
                   aggVars, ingestVars, tagVars, normVars, locVars, runnerVars, writeVars>>

InitAggVal ==
    /\ IdleRunner /\ IdleWrite
    /\ store \in AggStores
    /\ io_fails \in [ Range(AGGREGATION_INTERVALS) -> FailureKinds ]
    /\ agg = NoAgg /\ agg_i = 0 /\ agg_log = <<>> /\ agg_dirs = NoAggDirs
    /\ file_rows = <<>> /\ split_at = 0 /\ combined = NoData /\ write_ok = TRUE
    /\ stats = NoStats
    /\ dd_bound \in BOOLEAN
    /\ catalog = EmptyCatalog /\ prev_catalog = EmptyCatalog /\ removed = {}
    /\ report = NoReport /\ saved = NoSummary
    /\ IdleIngest /\ IdleLoc /\ IdleTags /\ IdleNorm
    /\ runs = 1 /\ stage = "3_aggregate"

NextAggVal == AggregateStart \/ AggregateInterval \/ ValidateAggregations

SpecAggVal == InitAggVal /\ [][NextAggVal]_vars

----------------------------------------------------------------------------
(* run_all.py: ETLRunner.run_all *)

ETL_SCRIPTS ==
    << "0_ingest.py", "1_normalize.py", "2_partition_write.py", "3_aggregate.py",
       "4_metadata.py", "5_validate.py" >>

\* main of 0_ingest.py when the raw-data root does not exist: it logs the
\* error and returns, and the interpreter exits with code 0.
IngestExitsZero(raw_exists) == ~raw_exists

\* subprocess.run(..., check=True) returns: the script's exit code was 0.
ScriptSucceeds(script, e) ==
    IF script = "0_ingest.py" /\ IngestExitsZero(e.raw_exists) THEN TRUE
    ELSE e.exit_ok[script]

\* A loop that would go on after a failure whatever stop_on_error says.
NeverBreaks(success, stop_on_error) == FALSE

\* `if not success and stop_on_error: ... break`
Breaks(success, stop_on_error) == ~success /\ stop_on_error

\* One iteration of `for script_name, description in ETL_SCRIPTS` with its
\* run_script call: a script that is not found returns False and leaves no
\* result; a script that is run leaves a result with its success.
RunScript ==
    /\ runner.i >= 1 /\ ~runner.done
    /\ LET script  == ETL_SCRIPTS[runner.i]
           found   == script \in env.present
           success == found /\ ScriptSucceeds(script, env)
       IN  runner' =
             [ i       |-> IF Breaks(success, env.stop_on_error) THEN runner.i ELSE runner.i + 1,
               results |-> IF found
                           THEN Append(runner.results, [ script |-> script, success |-> success ])
                           ELSE runner.results,
               started |-> IF found THEN Append(runner.started, script) ELSE runner.started,
               done    |-> Breaks(success, env.stop_on_error)
                              \/ runner.i = Len(ETL_SCRIPTS) ]
    /\ UNCHANGED <<env, tagVars, normVars, ingestVars, dataVars, aggVars, catVars, locVars,
                   runVars, writeVars>>

\* The scripts beside run_all.py: all of them, or all but one.
ScriptSets ==
    { Range(ETL_SCRIPTS) } \cup { Range(ETL_SCRIPTS) \ { x } : x \in Range(ETL_SCRIPTS) }

InitRunner ==
    /\ runner = [ i |-> 1, results |-> <<>>, started |-> <<>>, done |-> FALSE ]
    /\ env \in [ present : ScriptSets, exit_ok : [ Range(ETL_SCRIPTS) -> BOOLEAN ],
                raw_exists : BOOLEAN, stop_on_error : BOOLEAN ]
    /\ IdleTags /\ IdleNorm /\ IdleIngest /\ IdleData /\ IdleAgg /\ IdleCat /\ IdleLoc
    /\ IdleRun /\ IdleWrite

SpecRunner == InitRunner /\ [][RunScript]_vars

----------------------------------------------------------------------------
(* 0_ingest.py over archives that hold resource-fork entries *)

Dir_MACOSX   == << "__MACOSX" >>
Name_ForkA1  == << ".", "_", "A", "_", "1", ".", "txt" >>
Name_ForkA4  == << ".", "_", "A", "_", "4", ".", "txt" >>
Name_ForkN   == << ".", "_", "N", ".", "zip" >>

\* Archives as a macOS archiver writes them: next to a member, a member
\* __MACOSX/._<name> (or ._<name> beside it) that holds its resource fork.
ArtifactUniverse ==
    << RootFile(Dir_1hour, Name_X, TRUE, TRUE,
                { ArchiveEntry(<<>>, Name_A1, TRUE, {}),
                  ArchiveEntry(<< Dir_MACOSX >>, Name_ForkA1, TRUE, {}) }),
       RootFile(Dir_1hour, Name_Y, TRUE, TRUE,
                { ArchiveEntry(<<>>, Name_A4, TRUE, {}),
                  ArchiveEntry(<<>>, Name_ForkA4, TRUE, {}) }),
       RootFile(<<>>, Name_5min, TRUE, TRUE,
                { ArchiveEntry(<<>>, Name_N, TRUE, { Name_A2 }),
                  ArchiveEntry(<< Dir_MACOSX >>, Name_ForkN, FALSE, {}) }),
       RootFile(<<>>, Name_B1, FALSE, FALSE, {}) >>

InitArtifacts ==
    /\ IdleRunner /\ IdleWrite
    /\ raw_root \in { Keep(ArtifactUniverse, S, 1) : S \in SUBSET DOMAIN ArtifactUniverse }
    /\ disk = {} /\ items = <<>> /\ item_i = 0
    /\ manifest_files = EmptyBag /\ all_tags = EmptyBag
    /\ manifest = NoManifest /\ prev_manifest = NoManifest
    /\ IdleData /\ IdleAgg /\ IdleCat /\ IdleLoc
    /\ runs = 1 /\ stage = "0_ingest"
    /\ IdleTags /\ IdleNorm

SpecArtifacts == InitArtifacts /\ [][NextIngest]_vars

----------------------------------------------------------------------------
(* query_api.py: load_csv_from_manifest_entry *)

\* The content of a file: data bytes, or a zip archive with its members.
Data(bytes) == [ kind |-> "data", bytes |-> bytes, members |-> {} ]
Zip(members) == [ kind |-> "zip", bytes |-> "", members |-> members ]
Member(name, content) == [ name |-> name, content |-> content ]

\* The files on disk the locators are resolved against: an archive holding a
\* data file and a nested archive of two data files, and a plain data file.
DiskFiles ==
    { Member("outer.zip",
             Zip({ Member("d.txt", Data("d-outer")),
                   Member("in.zip", Zip({ Member("d.txt", Data("d-inner")),
                                          Member("e.txt", Data("e-inner")) })) })),
      Member("plain.txt", Data("plain")) }

PartNames == { "outer.zip", "in.zip", "d.txt", "e.txt", "plain.txt" }

\* A part of path.split("!"): a name, written with or without a leading "/".
Part(slash, name) == [ slash |-> slash, name |-> name ]
Parts == { Part(sl, n) : sl \in BOOLEAN, n \in PartNames }

\* What a call gives: the content read, or an exception.
Returned(content) == [ ok |-> TRUE, content |-> content ]
Raised == [ ok |-> FALSE, content |-> Data("") ]

HasMember(files, name) == \E m \in files : m.name = name
MemberOf(files, name) == (CHOOSE m \in files : m.name = name).content

\* zipfile.ZipFile(x).read(name) / .open(name): BadZipFile when x is not an
\* archive, KeyError when it has no such member.
ZipRead(content, name) ==
    IF content.kind = "zip" /\ HasMember(content.members, name)
    THEN Returned(MemberOf(content.members, name))
    ELSE Raised

\* A resolver that takes every inner part from the outermost archive.
RECURSIVE WalkOuter(_, _, _, _)
WalkOuter(zf, current, inner_parts, i) ==
    IF i > Len(inner_parts) THEN Raised
    ELSE IF i = Len(inner_parts) THEN ZipRead(zf, inner_parts[i].name)
    ELSE WalkOuter(zf, current, inner_parts, i + 1)

\* `for i, inner_name in enumerate(inner_parts)`: zf is the outermost
\* archive, current the bytes read last (current.ok is FALSE while
\* current_bytes is None).  inner_name.lstrip("/") is the part's name.
RECURSIVE Walk(_, _, _, _)
Walk(zf, current, inner_parts, i) ==
    IF i > Len(inner_parts) THEN Raised
    ELSE LET inner_name == inner_parts[i].name
         IN  IF i = Len(inner_parts)
             THEN IF current.ok THEN ZipRead(current.content, inner_name)
                  ELSE ZipRead(zf, inner_name)
             ELSE LET next == IF current.ok THEN ZipRead(current.content, inner_name)
                              ELSE ZipRead(zf, inner_name)
                  IN  IF next.ok THEN Walk(zf, next, inner_parts, i + 1) ELSE Raised

\* load_csv_from_manifest_entry on the parts of file_meta["path"].
load_csv_from_manifest_entry(files, parts) ==
    IF Len(parts) = 1
    THEN IF HasMember(files, parts[1].name) THEN Returned(MemberOf(files, parts[1].name))
         ELSE Raised
    ELSE IF HasMember(files, parts[1].name) /\ MemberOf(files, parts[1].name).kind = "zip"
         THEN Walk(MemberOf(files, parts[1].name), Raised, Tail(parts), 1)
         ELSE Raised

LoadCsv ==
    /\ ~lc_done
    /\ lc_out' = load_csv_from_manifest_entry(DiskFiles, lc_path)
    /\ lc_done' = TRUE
    /\ UNCHANGED <<lc_path, tagVars, normVars, ingestVars, dataVars, aggVars, catVars, runVars,
                   runnerVars, writeVars>>

\* The parts a path may split into: the path on disk, then up to MaxParts - 1
\* inner parts.
Locators ==
    { << Part(FALSE, n) >> \o rest : n \in PartNames,
                                     rest \in SeqsUpTo(Parts, MaxParts - 1) }

InitLoc ==
    /\ IdleRunner /\ IdleWrite
    /\ lc_path \in Locators
    /\ lc_out = Raised
    /\ lc_done = FALSE
    /\ IdleTags /\ IdleNorm /\ IdleIngest /\ IdleData /\ IdleAgg /\ IdleCat /\ IdleRun

SpecLoc == InitLoc /\ [][LoadCsv]_vars

----------------------------------------------------------------------------
(* Properties of normalize_txt_or_csv (SpecNorm) *)

\* C1: every bar normalize_txt_or_csv emits has low <= min(open, close),
\* high >= max(open, close), volume >= 0 and open > 0, whatever rows the
\* file holds.
C1_EmittedBarsAreValid ==
    nf_done =>
        \A i \in DOMAIN nf_out :
            /\ nf_out[i].low <= nf_out[i].open /\ nf_out[i].low <= nf_out[i].close
            /\ nf_out[i].high >= nf_out[i].open /\ nf_out[i].high >= nf_out[i].close
            /\ nf_out[i].volume >= 0
            /\ nf_out[i].open > 0

\* C3: when the file holds several valid rows of one timestamp, the output
\* holds exactly one bar of that timestamp, and it is the row that comes
\* last in file order among them, field for field.
C3_LastRowInFileOrderKept ==
    nf_done =>
        LET valid == FilterRows(nf_rows)
        IN  \A i \in DOMAIN valid :
                (\A j \in (i + 1)..Len(valid) : valid[j].time # valid[i].time)
                => /\ Cardinality({ n \in DOMAIN nf_out : nf_out[n].time = valid[i].time }) = 1
                   /\ \E n \in DOMAIN nf_out : nf_out[n] = valid[i]

----------------------------------------------------------------------------
(* Properties of extract_tags_from_filename (SpecTags) *)

\* C8: extract_tags_from_filename returns as its single tag the part of the
\* base name (the name up to its last dot, the whole name when it has no
\* dot) that precedes the first underscore, the whole base name when it has
\* no underscore, and no tag when that part is empty.
C8_TagIsHeadOfBaseName ==
    fn_done =>
        \E b \in 0..Len(fn_name), h \in 0..Len(fn_name) :
            \* the base name is fn_name[1..b]
            /\ \/ b = Len(fn_name) /\ \A i \in DOMAIN fn_name : fn_name[i] # "."
               \/ /\ b < Len(fn_name) /\ fn_name[b + 1] = "."
                  /\ \A i \in (b + 2)..Len(fn_name) : fn_name[i] # "."
            \* the tag is fn_name[1..h]
            /\ h <= b
            /\ \A i \in 1..h : fn_name[i] # "_"
            /\ h = b \/ fn_name[h + 1] = "_"
            /\ fn_tags = IF h = 0 THEN <<>> ELSE << SubSeq(fn_name, 1, h) >>

\* A name with two dots has been given its tag: the name up to the last dot.
C8_Witness ==
    /\ fn_done
    /\ fn_name = << "A", ".", "A", ".", "A" >>
    /\ fn_tags = << << "A", ".", "A" >> >>

----------------------------------------------------------------------------
(* Properties of ingestion (Spec) *)

\* The names of the data files discovery finds under a root: the raw data
\* files, the data files in a readable archive, and the data files in a
\* readable archive nested in one.
DiscoveredDataFiles(root) ==
    LET its == discover_files(root)
    IN  UNION { IF its[i].type = "raw" THEN { its[i].file.name }
                ELSE IF ~its[i].file.readable THEN {}
                ELSE { e.name : e \in { x \in its[i].file.entries : IsDataFile(x.name) } }
                     \cup UNION { e.inner : e \in { x \in its[i].file.entries :
                                                      IsZipName(x.name) /\ x.readable } } :
                i \in DOMAIN its }

\* Number of entries of the bag of manifest entries b for the file name.
EntryCount(b, name) ==
    BagCardinality([ e \in { x \in DOMAIN b : x.filename = name } |-> b[e] ])

\* C7: when an ingestion run has written its manifest, every data file that
\* discovery found (raw, inside an archive, inside a nested archive) has
\* exactly one entry in it.
C7_OneEntryPerDataFile ==
    (stage = "1_normalize" /\ items # <<>>) =>
        \A name \in DiscoveredDataFiles(raw_root) : EntryCount(manifest.files, name) = 1

\* C9: the manifest the second ingestion run writes, with etl_tmp kept from
\* the first, has the entries, the all_tags and the tag_counts of the
\* manifest the first run wrote.
C9_SecondManifestSame ==
    (runs = 2 /\ stage = "1_normalize" /\ items # <<>>) =>
        /\ manifest.files = prev_manifest.files
        /\ manifest.all_tags = prev_manifest.all_tags
        /\ manifest.tag_counts = prev_manifest.tag_counts

----------------------------------------------------------------------------
(* Properties of the stored bars (Spec) *)

\* C2: after normalisation and the partition write, the stored bars of every
\* symbol are strictly ascending in timestamp, so no two of them share a
\* (symbol, timestamp).
C2_StoredBarsStrictlyAscending ==
    (stage = "3_aggregate" /\ agg_i = 0 /\ combined.exists) =>
        \A sym \in StoredSymbols(store) :
            LET bars == StoredBars(store, sym)
            IN  \A i, j \in DOMAIN bars : i < j => bars[i].time < bars[j].time

\* C4: a write_partitioned_data that writes into a (symbol, year, month)
\* group which already has a partition file reports failure and leaves
\* every file the tree had with its content.
C4_SecondWriteRefused ==
    [][ ( /\ stage = "2_partition_write" /\ combined.exists
          /\ \E k \in DOMAIN store :
                \E w \in WrittenKeys(Partitions(combined.rows, split_at)) :
                    w.symbol = k.symbol /\ w.year = k.year /\ w.month = k.month )
        => ( /\ write_ok' = FALSE
             /\ \A k \in DOMAIN store : k \in DOMAIN store' /\ store'[k] = store[k] ) ]_vars

----------------------------------------------------------------------------
(* Properties of the aggregations and the catalog (Spec) *)

\* The rows of the aggregation of an interval, over all its files.
AggRows(aggtree, iv) == Flatten(ReadParquet(aggtree[iv]))

\* The stored bars of a symbol that fall in the bin of an interval.
BarsInBin(tree, sym, iv, label) ==
    LET Mine(r) == BinLabel(iv, r.time) = label IN SelectSeq(StoredBars(tree, sym), Mine)

BinsOf(tree, sym, iv) ==
    { BinLabel(iv, StoredBars(tree, sym)[i].time) : i \in DOMAIN StoredBars(tree, sym) }

\* C5: once the aggregations are written, for every symbol and 1h bucket that
\* holds a stored bar the 1h aggregation has a row for it, whose open is the
\* open of the bucket's earliest bar and whose volume is the sum of the
\* volumes of the bucket's bars, however the bars lie in partition files.
C5_HourlyOpenAndVolume ==
    stage = "4_metadata" =>
        \A sym \in StoredSymbols(store) : \A label \in BinsOf(store, sym, "1h") :
            LET bars  == BarsInBin(store, sym, "1h", label)
                first == Min({ bars[i].time : i \in DOMAIN bars })
                rows  == AggRows(agg, "1h")
                mine  == { n \in DOMAIN rows : rows[n].symbol = sym /\ rows[n].time = label }
            IN  /\ mine # {}
                /\ \A n \in mine :
                      /\ \E i \in DOMAIN bars : bars[i].time = first /\ rows[n].open = bars[i].open
                      /\ rows[n].volume = SumVolume(bars)

\* C6: once the aggregations are written, every interval's output holds
\* exactly one row for a symbol and bucket that has a stored bar of the
\* symbol and none for one that has not, and a row's high and low are those
\* of bars of its own symbol.
C6_OneRowPerNonEmptyBucket ==
    stage = "4_metadata" =>
        \A iv \in Range(AGGREGATION_INTERVALS) :
            LET rows == AggRows(agg, iv)
            IN  /\ \A sym \in StoredSymbols(store) : \A label \in BinsOf(store, sym, iv) :
                      Cardinality({ n \in DOMAIN rows :
                                      rows[n].symbol = sym /\ rows[n].time = label }) = 1
                /\ \A n \in DOMAIN rows :
                      LET bars == BarsInBin(store, rows[n].symbol, iv, rows[n].time)
                      IN  /\ bars # <<>>
                          /\ \E i \in DOMAIN bars : rows[n].high = bars[i].high
                          /\ \E i \in DOMAIN bars : rows[n].low = bars[i].low

----------------------------------------------------------------------------
(* Properties of ingestion with corrupt archives (SpecIngest) *)

\* The loop of main over the items its[i..], from the disk and the entries
\* in st = [disk, files].
RECURSIVE LoopFrom(_, _, _)
LoopFrom(st, its, i) ==
    IF i > Len(its) THEN st
    ELSE LET it  == its[i]
             res == IF it.type = "archive" THEN ArchiveItem(st.disk, it)
                    ELSE [ disk |-> st.disk, files |-> EmptyBag ]
             raw == IF RawBranchReached(it) THEN SetToBag({ RawEntry(it) }) ELSE EmptyBag
         IN  LoopFrom([ disk |-> res.disk, files |-> st.files (+) res.files (+) raw ],
                      its, i + 1)

\* etl_tmp and the entries collected after the n-th ingestion run over root.
RECURSIVE RunState(_, _)
RunState(root, n) ==
    IF n = 0 THEN [ disk |-> {}, files |-> EmptyBag ]
    ELSE LoopFrom([ disk |-> RunState(root, n - 1).disk, files |-> EmptyBag ],
                  discover_files(root), 1)

\* The root without its corrupt archives, top-level and nested.
IsSound(f) == DiscoverOne(f).type # "archive" \/ f.readable
WithoutCorrupt(root) ==
    LET kept == SelectSeq(root, IsSound)
    IN  [ i \in DOMAIN kept |->
            [ kept[i] EXCEPT !.entries = { e \in @ : ~IsZipName(e.name) \/ e.readable } ] ]

\* The names of the corrupt archives of a root.
CorruptNames(root) ==
    { root[i].name : i \in { j \in DOMAIN root : ~IsSound(root[j]) } }
    \cup UNION { { e.name : e \in { x \in root[i].entries : IsZipName(x.name) /\ ~x.readable } } :
                 i \in DOMAIN root }

\* C11: the manifest an ingestion run writes has no entry taken from a
\* corrupt archive, top-level or nested, and its entries are exactly those
\* the same run produces over the root without the corrupt archives.
C11_CorruptArchiveSkipped ==
    (stage = "1_normalize" /\ items # <<>>) =>
        /\ \A e \in DOMAIN manifest.files :
              /\ e.archive \notin CorruptNames(raw_root)
              /\ e.filename \notin { Name_A4, Name_A5 }
        /\ manifest.files = RunState(WithoutCorrupt(raw_root), runs).files

\* A run over a root with a corrupt top-level and a corrupt nested archive
\* next to readable ones has written its manifest, with entries in it.
C11_Witness ==
    /\ stage = "1_normalize" /\ raw_root = IngestUniverse
    /\ manifest.written /\ BagCardinality(manifest.files) >= 3

\* C12: an ingestion run writes no archive content to disk: when it has
\* written the manifest, etl_tmp holds no extracted file and no entry's
\* path is the path of an extracted copy.
C12_NothingExtracted ==
    (stage = "1_normalize" /\ items # <<>>) =>
        /\ disk = {}
        /\ \A e \in DOMAIN manifest.files : \A f \in disk : f.path # e.path

----------------------------------------------------------------------------
(* Properties of load_csv_from_manifest_entry (SpecLoc) *)

\* The content reached from a content by opening the named members in order.
RECURSIVE Descend(_, _)
Descend(content, names) ==
    IF names = <<>> THEN Returned(content)
    ELSE IF content.kind = "zip" /\ \E m \in content.members : m.name = names[1].name
    THEN Descend((CHOOSE m \in content.members : m.name = names[1].name).content, Tail(names))
    ELSE Raised

\* C13: on a locator of one part the call reads the file of that path on
\* disk; on a locator outer!...!data_file it returns the content reached by
\* opening the outer container, then every inner archive in locator order,
\* then the terminal name, and raises when no such file is reached.
C13_LocatorResolved ==
    lc_done =>
        IF \E f \in DiskFiles : f.name = lc_path[1].name
        THEN LET outer == (CHOOSE f \in DiskFiles : f.name = lc_path[1].name).content
             IN  IF Len(lc_path) > 1 /\ outer.kind # "zip" THEN lc_out = Raised
                 ELSE lc_out = Descend(outer, Tail(lc_path))
        ELSE lc_out = Raised

\* A two-level locator has been resolved to the data file in the nested
\* archive, which differs from the file of that name in the outer archive.
C13_Witness ==
    /\ lc_done
    /\ lc_path = << Part(FALSE, "outer.zip"), Part(FALSE, "in.zip"), Part(TRUE, "d.txt") >>
    /\ lc_out = Returned(Data("d-inner"))

----------------------------------------------------------------------------
(* Row discard rules of normalize_txt_or_csv (SpecNorm) *)

\* A row the discard rules keep: its timestamp parsed, open and close are
\* positive, volume is not negative and high is not below low.
KeptByRules(r) ==
    /\ r.time # NaN
    /\ Gt(r.open, 0) /\ Gt(r.close, 0)
    /\ Ge(r.volume, 0)
    /\ Ge(r.high, r.low)

\* C14: no row with an unparsed timestamp, a non-positive open or close, a
\* negative volume or high < low is in the output of normalize_txt_or_csv,
\* and every other row of the file is, unless a later row of the same
\* timestamp replaces it.
C14_BadRowsDiscardedOnly ==
    nf_done =>
        /\ \A n \in DOMAIN nf_out : KeptByRules(nf_out[n])
        /\ \A i \in DOMAIN nf_rows :
              ( /\ KeptByRules(nf_rows[i])
                /\ \A j \in DOMAIN nf_rows :
                      j # i /\ KeptByRules(nf_rows[j]) => nf_rows[j].time # nf_rows[i].time )
              => \E n \in DOMAIN nf_out : nf_out[n] = nf_rows[i]

----------------------------------------------------------------------------
(* Properties of process_all_files (SpecFiles) *)

\* Number of entries of the bag b, with multiplicity, that satisfy Test.
CountEntries(b, S) == BagCardinality([ e \in DOMAIN b \cap S |-> b[e] ])

\* C15: when process_all_files has gone through a manifest, every entry was
\* counted once (success + failed = total = the number of entries), and the
\* failed count is the number of entries whose path is missing or whose file
\* cannot be normalized.
C15_FailedFilesCounted ==
    (stage # "1_normalize" /\ manifest.written) =>
        /\ stats.total = BagCardinality(manifest.files)
        /\ stats.success + stats.failed = stats.total
        /\ stats.failed =
              CountEntries(manifest.files,
                           { e \in DOMAIN manifest.files :
                               \/ ~PathExists(disk, raw_root, e.path)
                               \/ e.filename \in ReadFails \cup ComputeFails })

----------------------------------------------------------------------------
(* Properties of process_all_aggregations under I/O errors (SpecAgg) *)

\* C16: when process_all_aggregations has ended, every interval was
\* attempted exactly once whatever failed before it, and every interval
\* whose iteration met no error has its tree written.
C16_IntervalsIndependent ==
    (stage # "3_aggregate" /\ DOMAIN store # {}) =>
        \A iv \in Range(AGGREGATION_INTERVALS) :
            /\ Cardinality({ n \in DOMAIN agg_log : agg_log[n].interval = iv }) = 1
            /\ io_fails[iv] = "none" => DOMAIN agg[iv] # {}

----------------------------------------------------------------------------
(* Properties of the catalog rebuild (SpecCat) *)

\* C17: after 4_metadata.py has run again, the partitions and aggregations
\* tables hold the rows they held before for every file still in the trees
\* and no row for a file removed since; over unchanged trees the three
\* tables are the tables of the run before.
C17_RebuildReplacesCatalog ==
    (stage = "end" /\ runs >= 2) =>
        /\ catalog.partitions =
              { r \in prev_catalog.partitions : MainFile(r.path) \notin removed }
        /\ catalog.aggregations =
              { a \in prev_catalog.aggregations : AggFile(a.interval, a.row.path) \notin removed }
        /\ removed = {} => catalog = prev_catalog

C17_Witness ==
    /\ stage = "end" /\ runs >= 2
    /\ catalog.partitions # {}
    /\ \E f \in removed : \E r \in prev_catalog.partitions : f = MainFile(r.path)

\* The partitions rows of a symbol.
RowsOfSymbol(sym) == { r \in catalog.partitions : r.symbol = sym }

\* C18: after build_symbol_summaries the symbols table has one row for every
\* symbol that has a partitions row and no other row, and the row holds the
\* least min_time, the greatest max_time, the sum of row_count, the number
\* and the sum of file_size_bytes of the symbol's partitions rows; no
\* aggregations row enters any of them.
C18_SymbolSummaries ==
    stage = "end" =>
        /\ { s.symbol : s \in catalog.symbols } = { r.symbol : r \in catalog.partitions }
        /\ \A s, t \in catalog.symbols : s.symbol = t.symbol => s = t
        /\ \A s \in catalog.symbols :
              LET mine == RowsOfSymbol(s.symbol)
              IN  /\ \E r \in mine : r.min_time = s.min_time
                  /\ \A r \in mine : s.min_time <= r.min_time
                  /\ \E r \in mine : r.max_time = s.max_time
                  /\ \A r \in mine : s.max_time >= r.max_time
                  /\ s.total_rows =
                        Cardinality(UNION { { << r.path, n >> : n \in 1..r.row_count } :
                                            r \in mine })
                  /\ s.partition_count = Cardinality(mine)
                  /\ s.total_size_bytes =
                        Cardinality(UNION { { << r.path, n >> : n \in 1..r.file_size_bytes } :
                                            r \in mine })

C18_Witness ==
    /\ stage = "end"
    /\ \E s \in catalog.symbols :
          /\ s.partition_count >= 2
          /\ \E a \in catalog.aggregations : a.row.symbol = s.symbol
    /\ Cardinality(catalog.symbols) >= 2

----------------------------------------------------------------------------
(* Properties of the validation checks (SpecVal) *)

\* A check of the report was recorded as passed.
CheckPassed(name) ==
    \E i \in DOMAIN report.checks : report.checks[i].name = name /\ report.checks[i].passed

\* The symbols with a partitions row or a stored bar.
KnownSymbols == { r.symbol : r \in catalog.partitions } \cup StoredSymbols(store)

\* The catalog's summed row_count of a symbol: one unit per catalogued row.
CatalogRows(sym) ==
    Cardinality(UNION { { << r.path, n >> : n \in 1..r.row_count } :
                        r \in { x \in catalog.partitions : x.symbol = sym } })

\* C19: the row-count check passes exactly when, for every symbol, the
\* catalog's summed row_count equals the number of rows stored for the
\* symbol; a symbol with stored rows and no catalog record makes it fail.
C19_RowCountParity ==
    saved.written =>
        (CheckPassed("row_counts_match") <=>
            \A sym \in KnownSymbols : CatalogRows(sym) = Len(StoredBars(store, sym)))

----------------------------------------------------------------------------
(* Properties of the ValidationReport (SpecReport) *)

\* The names of the checks recorded with passed = False, in their order.
FailedNames(checks) ==
    LET Failed(c) == ~c.passed
        f == SelectSeq(checks, Failed)
    IN  [ i \in DOMAIN f |-> f[i].name ]

\* errors holds one entry for each check recorded with passed=False, in the
\* same order, and a saved summary has passed + failed = total_checks,
\* failed = len(errors) and warnings = len(warnings) of the report it was
\* saved from.
ReportConsistent ==
    /\ [ i \in DOMAIN report.errors |-> report.errors[i].check ] = FailedNames(report.checks)
    /\ saved.written =>
          /\ saved.passed + saved.failed = saved.total_checks
          /\ saved = save(report) =>
                /\ saved.failed = Len(report.errors)
                /\ saved.warnings = Len(report.warnings)

\* C30: after any calls of add_check and add_warning the report is
\* consistent (errors lists the failed checks in order, the saved summary
\* counts them), and add_warning changes neither checks nor errors.
C30_ReportStaysConsistent ==
    /\ []ReportConsistent
    /\ [][report'.warnings # report.warnings =>
             (report'.checks = report.checks /\ report'.errors = report.errors)]_vars

C30_Witness ==
    /\ saved.written /\ saved = save(report)
    /\ saved.failed >= 2 /\ saved.passed >= 1 /\ saved.warnings >= 1
    /\ report.checks[1].passed

----------------------------------------------------------------------------
(* Properties of the partition-coverage check (SpecCov) *)

\* The calendar months from a symbol's earliest min_time to its latest
\* max_time over all its partitions rows, both months counted.
MonthsSpanned(sym) ==
    LET mine == { r \in catalog.partitions : r.symbol = sym }
    IN  MonthsDiff(Min({ r.min_time : r \in mine }), Max({ r.max_time : r \in mine }))

\* The symbols whose partition count is below half of the months they span.
LowCoverage ==
    { sym \in { r.symbol : r \in catalog.partitions } :
        2 * Cardinality({ r \in catalog.partitions : r.symbol = sym }) < MonthsSpanned(sym) }

CoverageChecked ==
    \E i \in DOMAIN report.checks : report.checks[i].name = "partition_coverage"

\* C21: when a symbol's coverage is below 50%, the coverage check records a
\* warning and no failure: a partition_coverage warning is in the report,
\* the check is not marked failed and errors has no entry for it.
C21_LowCoverageIsWarning ==
    (CoverageChecked /\ LowCoverage # {}) =>
        /\ \E i \in DOMAIN report.warnings : report.warnings[i].check = "partition_coverage"
        /\ CheckPassed("partition_coverage")
        /\ \A i \in DOMAIN report.errors : report.errors[i].check # "partition_coverage"

\* C28: the coverage check flags a symbol (records the warning) exactly
\* when the symbol's partition count is below half of the months spanned by
\* its earliest min_time and latest max_time.
C28_FlaggedIffBelowHalfOfSpan ==
    CoverageChecked =>
        ((report.warnings # <<>>) <=> (LowCoverage # {}))

----------------------------------------------------------------------------
(* Properties of the aggregation check (SpecAggVal) *)

\* The interval has a readable aggregation tree: the aggregation root and
\* the interval's directory exist and the directory holds files.
ReadableTree(iv) ==
    agg_dirs.root /\ iv \in agg_dirs.intervals /\ DOMAIN agg[iv] # {}

\* C22: when validate_aggregations runs and some configured interval has
\* no readable tree, it records a failed check; it records no failed check
\* only when every configured interval has a readable tree.
C22_MissingIntervalFailsCheck ==
    [][(report' # report /\ report'.errors = <<>>) =>
          \A iv \in Range(AGGREGATION_INTERVALS) : ReadableTree(iv)]_vars

----------------------------------------------------------------------------
(* Properties of ETLRunner.run_all (SpecRunner) *)

\* The scripts of a sequence of results.
ScriptsOf(results) == [ n \in DOMAIN results |-> results[n].script ]

\* s is ETL_SCRIPTS restricted to the scripts that are present, cut after n.
PresentScripts ==
    LET There(x) == x \in env.present IN SelectSeq(ETL_SCRIPTS, There)

\* C23: when the raw-data root does not exist and the runner stops on
\* errors, the run ends with the ingest stage reported as failed and no
\* later stage executed.
C23_MissingRawRootAborts ==
    (runner.done /\ ~env.raw_exists /\ env.stop_on_error /\ env.present = Range(ETL_SCRIPTS)) =>
        /\ runner.results = << [ script |-> "0_ingest.py", success |-> FALSE ] >>
        /\ runner.started = << "0_ingest.py" >>

\* C29: the scripts are started in the fixed order, each at most once; with
\* stop_on_error no script is started after the first that fails, so
\* results is a prefix of the order whose only failed entry, if any, is the
\* last; without stop_on_error every script is run whatever the outcomes
\* before it.
C29_FixedOrderStopOnError ==
    /\ ScriptsOf(runner.results) = runner.started
    /\ \E n \in 0..Len(PresentScripts) : runner.started = SubSeq(PresentScripts, 1, n)
    /\ env.stop_on_error =>
          /\ \A n \in DOMAIN runner.results :
                ~runner.results[n].success => (n = Len(runner.results) /\ runner.done)
          /\ env.present = Range(ETL_SCRIPTS) =>
                \E n \in 0..Len(ETL_SCRIPTS) :
                    ScriptsOf(runner.results) = SubSeq(ETL_SCRIPTS, 1, n)
    /\ (runner.done /\ ~env.stop_on_error) => runner.started = PresentScripts

C29_Witness ==
    /\ runner.done /\ env.stop_on_error /\ env.present = Range(ETL_SCRIPTS)
    /\ Len(runner.results) = 3
    /\ ~runner.results[3].success
    /\ env.exit_ok["5_validate.py"]

----------------------------------------------------------------------------
(* Properties of the manifest over resource-fork entries (SpecArtifacts) *)

\* The path names a platform artifact: it lies under __MACOSX or one of its
\* names begins with "._".
IsArtifactPath(path) ==
    \E i \in DOMAIN path :
        \/ path[i] = Dir_MACOSX
        \/ Len(path[i]) >= 2 /\ path[i][1] = "." /\ path[i][2] = "_"

\* C25: an archive entry under __MACOSX/ or with a "._" name never produces
\* a manifest entry or a tag.
C25_ArtifactsExcluded ==
    manifest.written =>
        /\ \A e \in DOMAIN manifest.files : ~IsArtifactPath(e.path)
        /\ << "." >> \notin manifest.all_tags

(***************************************************************************)
(* Bucket alignment of the aggregated bars.                                *)
(***************************************************************************)

\* The width of a target interval in minutes.
IntervalMinutes(iv) == IF iv = "1w" THEN 7 * MinutesPerDay ELSE RuleMinutes(iv)

\* The stored bars of a symbol with start <= timestamp < start + interval.
BarsFrom(tree, sym, iv, start) ==
    LET Mine(r) == start <= r.time /\ r.time < start + IntervalMinutes(iv)
    IN  SelectSeq(StoredBars(tree, sym), Mine)

\* C26: once the aggregations are written, for every target interval, 1w
\* included, an aggregated bar's timestamp is the aligned start of its
\* bucket, the bars folded into it are the symbol's stored bars with
\* start <= timestamp < start + interval, and every stored bar lies in the
\* bucket of a bar of its symbol.
C26_BucketStartLeftClosed ==
    stage = "4_metadata" =>
        \A iv \in Range(AGGREGATION_INTERVALS) :
            LET rows == AggRows(agg, iv)
            IN  /\ \A n \in DOMAIN rows :
                      LET bars == BarsFrom(store, rows[n].symbol, iv, rows[n].time)
                      IN  /\ rows[n].time % (IF iv = "1w" THEN MinutesPerDay
                                                         ELSE IntervalMinutes(iv)) = 0
                          /\ bars # <<>>
                          /\ rows[n].volume = SumVolume(bars)
                /\ \A sym \in StoredSymbols(store) :
                      \A i \in DOMAIN StoredBars(store, sym) :
                          \E n \in DOMAIN rows :
                              /\ rows[n].symbol = sym
                              /\ rows[n].time <= StoredBars(store, sym)[i].time
                              /\ StoredBars(store, sym)[i].time
                                     < rows[n].time + IntervalMinutes(iv)

(***************************************************************************)
(* The catalog rows against the files of the trees (SpecCatFiles).         *)
(***************************************************************************)

\* A catalog row describes the rows of a file stored under a path.
Describes(r, k, rows) ==
    /\ r.path = k
    /\ r.symbol = k.symbol /\ r.year = k.year /\ r.month = k.month
    /\ r.row_count = Len(rows)
    /\ \E i \in DOMAIN rows : rows[i].time = r.min_time
    /\ \A i \in DOMAIN rows : r.min_time <= rows[i].time
    /\ \E i \in DOMAIN rows : rows[i].time = r.max_time
    /\ \A i \in DOMAIN rows : rows[i].time <= r.max_time

\* C27: after a catalog build every partitions row describes a file of the
\* partition tree that has rows, every such file has exactly one partitions
\* row, and the same holds for the aggregations rows and the files of their
\* interval's tree: path, row_count, min_time, max_time and the keys
\* symbol, year, month (and interval) are those of the file.
C27_CatalogMatchesFiles ==
    stage = "end" =>
        /\ \A r \in catalog.partitions :
              /\ r.path \in DOMAIN store
              /\ store[r.path] # <<>>
              /\ Describes(r, r.path, store[r.path])
        /\ \A k \in DOMAIN store :
              store[k] # <<>> =>
                  Cardinality({ r \in catalog.partitions : r.path = k }) = 1
        /\ \A a \in catalog.aggregations :
              /\ a.interval \in DOMAIN agg
              /\ a.row.path \in DOMAIN agg[a.interval]
              /\ agg[a.interval][a.row.path] # <<>>
              /\ Describes(a.row, a.row.path, agg[a.interval][a.row.path])
        /\ \A iv \in DOMAIN agg : \A k \in DOMAIN agg[iv] :
              agg[iv][k] # <<>> =>
                  Cardinality({ a \in catalog.aggregations :
                                  a.interval = iv /\ a.row.path = k }) = 1

C27_Witness ==
    /\ stage = "end"
    /\ \E k \in DOMAIN store : store[k] = <<>>
    /\ \E r, q \in catalog.partitions :
          r # q /\ r.symbol = q.symbol /\ r.year = q.year /\ r.month = q.month
    /\ \E a, b \in catalog.aggregations : a.interval # b.interval

(***************************************************************************)
(* The files of the partition tree during a write (SpecWrite).             *)
(***************************************************************************)

\* A returned to_parquet call has left the tree the call as a whole leaves.
WriteStepsAgree ==
    wr.phase = "done" =>
        partial = {} /\ store = write_partitioned_data(<<>>, wr.parts).tree

\* C24: at every point of a partition write, and in every state a cancelled
\* or failed write leaves, no file at a final path under the partition tree
\* is partially written: every file there is complete.
C24_NoPartialFileAtFinalPath ==
    \A k \in DOMAIN store : k \notin partial

====
